---- MODULE Spec2Model ----
(***************************************************************************)
(* Layer.ai MCP server: the asynchronous remote-job orchestration engine   *)
(* (submit, poll, download) and its transport client, as implemented by    *)
(* the server variants under src/layer-mcp-server/:                        *)
(*   "production"  production_ready_layer_ai_server.py                      *)
(*                 (its polling loop is the one of critical_bug_fixes.py,  *)
(*                 lines 172-255, word for word)                           *)
(*   "fully"       fully_working_layer_ai_server.py                        *)
(*   "secure"      layer_ai_server.py                                      *)
(*   "enhanced"    enhanced_server.py                                      *)
(* One behaviour is one orchestration call (create_asset, or               *)
(* create_inference in the enhanced variant) with no input files.  Every   *)
(* await of the handler (a POST of the transport client, a sleep, the GET  *)
(* of the download) is one step; the remote service answers each request   *)
(* nondeterministically.                                                   *)
(*                                                                         *)
(* token_manager.py is modelled by two further specifications: ShapeSpec,  *)
(* the token and workspace id shape checks applied to candidate strings,   *)
(* and CredSpec, the encrypted credential store with two processes calling *)
(* get_credentials, store_credentials and clear_token, one file access a   *)
(* step.                                                                   *)
(*                                                                         *)
(* Five further specifications cover the rest of a tool call, each for the *)
(* servers that have the code ('bugfixed' is critical_bug_fixes.py):       *)
(* UploadSpec, the upload of the input files before the submission;        *)
(* ParamSpec, the generation parameters built of the arguments; PathSpec,  *)
(* the extension resolved for a download and the path it is written to;    *)
(* ToolSpec, handle_call_tool around the method that serves a tool;        *)
(* LoadSpec, a server from its construction to the start of serving and    *)
(* its first request.                                                      *)
(*                                                                         *)
(* TestSpec is the call test_enhanced.py makes: an enhanced server built   *)
(* with no token manager, then one create_inference.  CallSpec is two      *)
(* create_asset calls of one production server, interleaved at their       *)
(* awaits, each writing its result file.                                   *)
(***************************************************************************)
EXTENDS Integers, Sequences, FiniteSets, TLC

Variants == {"production", "fully", "secure", "enhanced"}

\* ------------------------------------------------------------ constants
max_wait_time == 300
check_interval == 5
max_consecutive_failures == 3
max_retries == 3

\* Bounds of the observation counters (they saturate, so no step is disabled).
MaxOverrun == 6
MaxRun == 4
MaxCalls == 2
\* Longest list of input files.
MaxFiles == 3

Sat(n, cap) == IF n < cap THEN n ELSE cap

\* ------------------------------------------------------------ values
Err(kind, cause) == [kind |-> kind, cause |-> cause]
NoErr == Err("none", "none")

\* An HTTP exchange of the control plane: status 0 stands for client.post
\* raising (no response delivered); errors tells whether the JSON body has a
\* top-level "errors" member, and whether that list is empty.
HttpResponse(status, errors) == [status |-> status, errors |-> errors]
NoResp == HttpResponse(0 - 1, "absent")
PostRaised == HttpResponse(0, "absent")
Responses ==
    { PostRaised,
      HttpResponse(200, "absent"), HttpResponse(200, "nonempty"),
      HttpResponse(200, "empty"),
      HttpResponse(201, "absent"), HttpResponse(500, "absent") }

NoUrl == "null"
FileLists == { <<>>, <<"u1">>, <<"u1", "u2">>, <<"u2", "u1">>, <<NoUrl>> }
Terminal == {"COMPLETE", "FAILED", "CANCELLED"}
Messages == {"m1", "m2"}

\* The "data" of a delivered response, by what the selected field resolved to.
Payload(kind, status, files, message) ==
    [kind |-> kind, status |-> status, files |-> files, message |-> message]
NoPayload == Payload("none", "", <<>>, "")

\* createInference: an Inference, an Error {message}, null, or an object with
\* neither id nor message.  The secure variant's mutation selects no
\* "... on Error" fragment, so an Error reaches it as the empty object.
CreatePayloads(v) ==
    { Payload("inference", s, f, "") : s \in {"PENDING", "COMPLETE"}, f \in {<<>>, <<"u1">>} }
    \cup { Payload("null", "", <<>>, ""), Payload("empty", "", <<>>, "") }
    \cup (IF v = "secure" THEN {}
          ELSE { Payload("error", "", <<>>, m) : m \in Messages })

\* getInferencesById: a list with the inference, the empty list, an Error
\* {message} (selected by the production query only), or null.  A job that
\* is still running has no output files yet.  NoStatus is an inference
\* without a "status" member.
NoStatus == "None"
PollStatuses == {"RUNNING", "COMPLETE", "FAILED", "CANCELLED", "COMPLETED", NoStatus}
FilesOf(s) ==
    IF s = "COMPLETE" THEN FileLists
    ELSE IF s \in {"RUNNING", NoStatus} THEN { <<>> }
    ELSE { <<>>, <<"u1">> }
StatusPayloads(v) ==
    UNION { { Payload("inferences", s, f, "") : f \in FilesOf(s) } : s \in PollStatuses }
    \cup { Payload("not_found", "", <<>>, ""), Payload("null", "", <<>>, "") }
    \cup (IF v = "production" THEN { Payload("error", "", <<>>, m) : m \in Messages }
          ELSE {})

Payloads(v, purpose) ==
    IF purpose = "create" THEN CreatePayloads(v) ELSE StatusPayloads(v)

InferenceData(status, files) == [status |-> status, files |-> files]
NoData == InferenceData("", <<>>)

NoTime == 0 - 1
Outcome(kind, err, elapsed, msg) ==
    [kind |-> kind, err |-> err, elapsed |-> elapsed, msg |-> msg]
NoOutcome == Outcome("none", NoErr, NoTime, "")

Whitespace == {" ", "\n"}
\* str.strip()
RECURSIVE LStrip(_)
LStrip(s) ==
    IF s # <<>> /\ Head(s) \in Whitespace THEN LStrip(Tail(s)) ELSE s
RECURSIVE RStrip(_)
RStrip(s) ==
    IF s # <<>> /\ s[Len(s)] \in Whitespace
    THEN RStrip(SubSeq(s, 1, Len(s) - 1))
    ELSE s
Strip(s) == RStrip(LStrip(s))

\* The prompt argument: arguments.get("prompt") is None when the key is
\* missing, otherwise the text given (a sequence of characters).
Prompt(given, text) == [given |-> given, text |-> text]
Prompts ==
    { Prompt(FALSE, <<>>), Prompt(TRUE, <<>>), Prompt(TRUE, << " ", "\n" >>),
      Prompt(TRUE, << "a" >>) }
ValidPrompt == Prompt(TRUE, << "a" >>)

\* not prompt
NotPrompt(p) == ~p.given \/ p.text = <<>>

\* The test that ends _create_asset before anything else is done.  The
\* enhanced server's _create_inference has none.
PromptRequired(v, p) ==
    IF v = "production" THEN NotPrompt(p) \/ Strip(p.text) = <<>>
    ELSE IF v = "enhanced" THEN FALSE
    ELSE NotPrompt(p)

VARIABLES
    variant,               \* which server class handles the call
    args,                  \* the tool arguments the model reads
    pc,                    \* the handler's position
    req,                   \* purpose of the transport request in progress
    tpc,                   \* the transport request's position
    attempt,               \* _make_graphql_request: loop index
    last_error,            \* _make_graphql_request: last_error
    result,                \* payload a request returned
    raised,                \* exception a request raised
    inference_response,    \* _create_asset: inference_response
    elapsed_time,          \* polling loop: elapsed_time
    consecutive_failures,  \* polling loop: consecutive_failures
    inference_data,        \* polling loop: inference_data
    outcome,               \* what the call returns to the tool caller
    \* observation only (never read by an action's guard or assignment):
    lastResp,              \* the last HTTP exchange of the request in progress
    attemptsMade,          \* POSTs of the request in progress
    waits,                 \* back-off sleeps of the request in progress
    submissions,           \* createInference POSTs of the call
    polls,                 \* status polls issued (enhanced: the range index)
    sleeps,                \* interval sleeps of the polling loop
    overrun,               \* seconds slept in back-off during polling
    failRun,               \* failed status polls in a row, as the service saw
    lastPollErr,           \* error of the status poll just handled, if it failed
    sawTerminal,           \* a poll has observed COMPLETE, FAILED or CANCELLED
    downloads,             \* URLs a download GET was sent to
    written,               \* URLs whose content was written to disk
    download_statuses,     \* status of each download GET (0: the GET raised)
    prompt,                \* arguments.get("prompt")
    mkdirs                 \* calls of mkdir(parents=True, exist_ok=True)

vars == << variant, args, pc, req, tpc, attempt, last_error, result, raised,
           inference_response, elapsed_time, consecutive_failures,
           inference_data, outcome, lastResp, attemptsMade, waits,
           submissions, polls, sleeps, overrun, failRun, lastPollErr,
           sawTerminal, downloads, written,
           download_statuses, prompt, mkdirs >>

transportVars == << req, tpc, attempt, last_error, result, raised,
                    lastResp, attemptsMade, waits >>
loopVars == << elapsed_time, consecutive_failures, inference_data >>
pollObs == << failRun, lastPollErr, sawTerminal >>

\* State of the token-shape checks of token_manager.py (specification
\* ShapeSpec): one candidate token and one candidate workspace id, handed to
\* SecureTokenManager._validate_token and, as the two environment variables,
\* to EnvironmentTokenManager.get_token.
VARIABLES
    token_in,              \* the token under test / LAYER_API_TOKEN
    workspace_id_in,       \* LAYER_WORKSPACE_ID
    validate_returned,     \* _validate_token has returned
    token_ok,              \* what it returned
    env_returned,          \* EnvironmentTokenManager.get_token has returned
    env_credentials        \* what it returned

shapeVars == << token_in, workspace_id_in, validate_returned, token_ok,
                env_returned, env_credentials >>

\* State of the credential store of token_manager.py (specification
\* CredSpec): the two files under .kiro/secure, the environment, and the
\* processes that call into LayerTokenManager.
VARIABLES
    key_file,              \* contents of .kiro/secure/.key
    token_file,            \* contents of .kiro/secure/layer_tokens.enc
    environ,               \* LAYER_API_TOKEN and LAYER_WORKSPACE_ID
    op,                    \* per process: the call in progress or just over
    step,                  \* per process: where the call stands
    call_id,               \* per process: number of the call
    call_args,             \* per process: (token, workspace_id) of store_token
    key,                   \* per process: key of _encrypt_data / _decrypt_data
    encrypted_data,        \* per process: encrypted_data
    opened,                \* per process: the file the pending write goes to
    returned,              \* per process: what the call returned
    adopted,               \* per process: what a server making the call holds
    \* observation only:
    calls_made,            \* calls started so far
    writes,                \* per process: the files the call has changed
    solo,                  \* per process: no other call overlapped this one
    before,                \* per process: the call that ended before this one
    last_done              \* the call that ended last

diskVars == << key_file, token_file >>
procVars == << op, step, call_id, call_args, key, encrypted_data, opened, returned,
               adopted >>
credObs == << calls_made, writes, solo, before, last_done >>
credVars == << diskVars, environ, procVars, credObs >>

\* The upload of input files that precedes the submission in _create_asset
\* (production, fully) and in _handle_input_files (bugfixed).
VARIABLES
    upload_server,         \* whose code runs: "production", "bugfixed", "fully"
    input_files,           \* arguments["input_files"]: the files as they are on disk
    file_index,            \* position of the for loop in input_files
    upload_pc,             \* where the call stands
    file_urls,             \* file_urls: the uploaded files, as positions
    failed_uploads,        \* failed_uploads: position and reason
    upload_result,         \* how the call ended
    \* observation only:
    sent,                  \* the requests put on the network so far
    put_replies,           \* status of every answered PUT, by position
    slot_replies           \* per createUploadUrls request: did it give a slot

uploadVars == << upload_server, input_files, file_index, upload_pc, file_urls,
                 failed_uploads, upload_result, sent, put_replies, slot_replies >>

\* The generation parameters _create_asset / _create_inference builds for
\* the submission.
VARIABLES
    param_server,          \* whose code runs: "production", "fully", "enhanced"
    arguments,             \* the caller's arguments
    parameters,            \* the parameters object of the createInference request
    parameters_built       \* the request has been built

paramVars == << param_server, arguments, parameters, parameters_built >>

\* The download of a result file: its extension and where it is written.
VARIABLES
    path_server,           \* whose code runs
    content_type,          \* the content-type header of the download
    filename,              \* the name the remote service declares for the file
    save_path,             \* arguments["save_path"]
    ext,                   \* the extension resolved
    full_path,             \* the path the file is written to
    path_pc                \* where the download stands

pathVars == << path_server, content_type, filename, save_path, ext, full_path,
               path_pc >>

\* One call of a tool through handle_call_tool.
VARIABLES
    tool_server,           \* whose handle_call_tool runs
    tool_name,             \* name
    tool_arguments,        \* arguments, by what the handler finds in them
    remote,                \* how the remote service behaves during the call
    tool_pc,               \* where the call stands
    handler_outcome,       \* how the tool's own method ended
    tool_result            \* what handle_call_tool gave its caller

toolVars == << tool_server, tool_name, tool_arguments, remote, tool_pc,
               handler_outcome, tool_result >>

\* A server process from its construction to the start of serving.
VARIABLES
    load_server,           \* which server is constructed
    manager_imported,      \* the import of LayerTokenManager succeeded
    stored_pair,                \* the pair the encrypted tier holds, or None
    load_environ,          \* LAYER_API_TOKEN and LAYER_WORKSPACE_ID
    load_pc,               \* where the process stands
    held,                  \* (self.api_token, self.workspace_id)
    posted                 \* the token and workspace id of the request sent

loadVars == << load_server, manager_imported, stored_pair, load_environ, load_pc, held,
               posted >>

\* Two create_asset calls served by one production server at the same time:
\* each is a coroutine with its own locals; the event loop switches between
\* them at an await.
VARIABLES
    call_save_path,        \* per call: arguments["save_path"], if given
    call_pc,               \* per call: where the coroutine stands
    call_inference_id,     \* per call: inference_id
    call_full_path,        \* per call: full_path of _download_result_files
    call_text,             \* per call: what the call returned
    issued,                \* the jobs the remote service has created
    disk,                  \* the files written: path and content
    \* observation only:
    overlapped             \* one call began while the other was under way

callVars == << call_save_path, call_pc, call_inference_id, call_full_path,
               call_text, issued, disk, overlapped >>

\* what a step of one component leaves alone
notJobVars == << shapeVars, credVars, uploadVars, paramVars, pathVars, toolVars, loadVars, callVars >>
notShapeVars == << vars, credVars, uploadVars, paramVars, pathVars, toolVars, loadVars, callVars >>
notCredVars == << vars, shapeVars, uploadVars, paramVars, pathVars, toolVars, loadVars, callVars >>
notUploadVars == << vars, shapeVars, credVars, paramVars, pathVars, toolVars, loadVars, callVars >>
notParamVars == << vars, shapeVars, credVars, uploadVars, pathVars, toolVars, loadVars, callVars >>
notPathVars == << vars, shapeVars, credVars, uploadVars, paramVars, toolVars, loadVars, callVars >>
notToolVars == << vars, shapeVars, credVars, uploadVars, paramVars, pathVars, loadVars, callVars >>
notLoadVars == << vars, shapeVars, credVars, uploadVars, paramVars, pathVars, toolVars, callVars >>
notCallVars == << vars, shapeVars, credVars, uploadVars, paramVars, pathVars, toolVars, loadVars >>

\* ------------------------------------------------------------ transport
ResponseError_any2xx(v, resp) ==
    IF resp.status = 0 THEN Err("transport", "none")
    ELSE IF resp.status \in 200..299
    THEN IF resp.errors = "nonempty" THEN Err("graphql", "none") ELSE NoErr
    ELSE Err("http", "none")

\* What one POST makes of the exchange: NoErr when the request succeeds,
\* otherwise the exception raised.
ResponseError(v, resp) ==
    IF resp.status = 0 THEN Err("transport", "none")
    ELSE IF resp.status = 200
    THEN IF resp.errors # "absent"
         THEN IF v # "enhanced" /\ resp.errors = "empty"
              THEN Err("index", "none")       \* result['errors'][0] of []
              ELSE Err("graphql", "none")
         ELSE NoErr
    ELSE Err("http", "none")

\* Only the production variant wraps the POST in a retry loop.
Retries(v) == v = "production"

wait_time_linear(a) == 2 * a

wait_time(a) == 2 ^ a

\* The loop goes on to another attempt after a failed one.
RetryAgain(a) == a < max_retries - 1

\* The exception raised once the loop is exhausted.
RetriesExhausted(e) == Err("retries_exhausted", e.kind)

\* The handler calls the transport client.
BeginRequest(purpose) ==
    /\ req' = purpose
    /\ tpc' = "attempting"
    /\ attempt' = 0
    /\ last_error' = NoErr
    /\ result' = NoPayload
    /\ raised' = NoErr
    /\ lastResp' = NoResp
    /\ attemptsMade' = 0
    /\ waits' = <<>>

\* The handler has taken the request's result or exception.
EndRequest ==
    /\ req' = "none"
    /\ tpc' = "idle"
    /\ attempt' = 0
    /\ last_error' = NoErr
    /\ result' = NoPayload
    /\ raised' = NoErr
    /\ lastResp' = NoResp
    /\ attemptsMade' = 0
    /\ waits' = <<>>

make_graphql_request_attempt ==
    /\ tpc = "attempting"
    /\ \E resp \in Responses, data \in Payloads(variant, req) \cup {NoPayload} :
         LET e == ResponseError(variant, resp) IN
         /\ (data = NoPayload) <=> (e # NoErr)
         /\ lastResp' = resp
         /\ attemptsMade' = attemptsMade + 1
         /\ submissions' = IF req = "create" THEN submissions + 1 ELSE submissions
         /\ IF e = NoErr
            THEN /\ tpc' = "returned"
                 /\ result' = data
                 /\ UNCHANGED << last_error, raised >>
            ELSE IF Retries(variant)
            THEN /\ last_error' = e
                 /\ result' = NoPayload
                 /\ IF RetryAgain(attempt)
                    THEN tpc' = "backoff" /\ raised' = NoErr
                    ELSE tpc' = "raised" /\ raised' = RetriesExhausted(e)
            ELSE /\ tpc' = "raised"
                 /\ raised' = e
                 /\ result' = NoPayload
                 /\ UNCHANGED last_error
    /\ UNCHANGED << variant, args, prompt, pc, req, attempt, inference_response,
                    loopVars, outcome, waits, polls, sleeps, overrun,
                    pollObs, downloads, written,
                    download_statuses, mkdirs >>
    /\ UNCHANGED notJobVars

make_graphql_request_backoff ==
    /\ tpc = "backoff"
    /\ waits' = Append(waits, wait_time(attempt))
    /\ overrun' = IF req = "status"
                  THEN Sat(overrun + wait_time(attempt), MaxOverrun)
                  ELSE overrun
    /\ attempt' = attempt + 1
    /\ tpc' = "attempting"
    /\ UNCHANGED << variant, args, prompt, pc, req, last_error, result, raised,
                    inference_response, loopVars, outcome, lastResp,
                    attemptsMade, submissions, polls, sleeps, pollObs,
                    downloads, written,
                    download_statuses, mkdirs >>
    /\ UNCHANGED notJobVars

\* ------------------------------------------------------------ submission

Decision(next, out, cf, el, data) ==
    [pc |-> next, outcome |-> out, cf |-> cf, el |-> el, data |-> data]
IsErrorResponse_never(r) == FALSE

\* "message" in inference_response
IsErrorResponse(r) == r.kind = "error"

\* not (not inference_response or "id" not in inference_response)
HasId(r) == r.kind = "inference"

\* The enhanced variant waits only for a job that is not yet finished.
NeedsWait(r) == r.status \in {"PENDING", "RUNNING"}

\* The enhanced variant's tail: save the first file if asked, then report.
EnhancedSave(a, status, files) ==
    IF a.save_path /\ files # <<>>
    THEN Decision("download", NoOutcome, 0, 0, InferenceData(status, files))
    ELSE Decision("done", Outcome("created", NoErr, NoTime, status), 0, 0,
                  InferenceData(status, files))

\* What the handler does with the answer to the createInference request:
\* t is how the request ended, r what it returned, e what it raised.
AfterSubmit(v, a, t, r, e) ==
    IF t = "raised"
    THEN IF v \in {"production", "enhanced"}
         THEN Decision("done", Outcome("creation_error", e, NoTime, ""), 0, 0, NoData)
         ELSE Decision("done", Outcome("tool_error", e, NoTime, ""), 0, 0, NoData)
    ELSE IF v = "secure"
    THEN IF ~HasId(r)
         THEN Decision("done", Outcome("invalid_response", NoErr, NoTime, ""), 0, 0, NoData)
         ELSE IF ~a.wait_for_completion
         THEN Decision("done", Outcome("started", NoErr, NoTime, ""), 0, 0, NoData)
         ELSE Decision("poll", NoOutcome, 0, 0, NoData)
    ELSE IF v = "enhanced"
    THEN IF r.kind = "null"
         THEN Decision("done", Outcome("creation_error", Err("type", "none"), NoTime, ""), 0, 0, NoData)
         ELSE IF IsErrorResponse(r)
         THEN Decision("done", Outcome("remote_error", NoErr, NoTime, r.message), 0, 0, NoData)
         ELSE IF r.kind = "empty"
         THEN Decision("done", Outcome("creation_error", Err("key", "none"), NoTime, ""), 0, 0, NoData)
         ELSE IF NeedsWait(r)
         THEN Decision("poll", NoOutcome, 0, 0, NoData)
         ELSE EnhancedSave(a, r.status, r.files)
    ELSE \* production, fully
         IF r.kind = "null"
         THEN IF v = "production"
              THEN Decision("done", Outcome("creation_error", Err("type", "none"), NoTime, ""), 0, 0, NoData)
              ELSE Decision("done", Outcome("tool_error", Err("type", "none"), NoTime, ""), 0, 0, NoData)
         ELSE IF IsErrorResponse(r)
         THEN Decision("done", Outcome("remote_error", NoErr, NoTime, r.message), 0, 0, NoData)
         ELSE IF ~HasId(r)
         THEN Decision("done", Outcome("invalid_response", NoErr, NoTime, ""), 0, 0, NoData)
         ELSE IF ~a.wait_for_completion
         THEN Decision("done", Outcome("started", NoErr, NoTime, ""), 0, 0, NoData)
         ELSE Decision("poll", NoOutcome, 0, 0, NoData)

\* _create_asset up to the createInference request: the prompt test, the
\* output directory (enhanced makes none here), then the submission.
create_asset_submit ==
    /\ pc = "start"
    /\ IF PromptRequired(variant, prompt)
       THEN /\ pc' = "done"
            /\ outcome' = Outcome("prompt_required", NoErr, NoTime, "")
            /\ UNCHANGED << transportVars, mkdirs >>
       ELSE /\ pc' = "await_create"
            /\ mkdirs' = IF variant = "enhanced" THEN mkdirs ELSE mkdirs + 1
            /\ BeginRequest("create")
            /\ UNCHANGED outcome
    /\ UNCHANGED << variant, args, prompt, inference_response, loopVars,
                    submissions, polls, sleeps, overrun, pollObs, downloads,
                    written, download_statuses >>
    /\ UNCHANGED notJobVars

create_asset_after_submit ==
    /\ pc = "await_create"
    /\ tpc \in {"returned", "raised"}
    /\ LET d == AfterSubmit(variant, args, tpc, result, raised) IN
         /\ pc' = d.pc
         /\ outcome' = d.outcome
         /\ elapsed_time' = d.el
         /\ consecutive_failures' = d.cf
         /\ inference_data' = d.data
         \* inference_response is read no more once polling starts
         /\ inference_response' = IF d.pc = "poll" THEN NoPayload ELSE result
    /\ EndRequest
    /\ UNCHANGED << variant, args, prompt, submissions, polls, sleeps, overrun,
                    pollObs, downloads, written,
                    download_statuses, mkdirs >>
    /\ UNCHANGED notJobVars

\* ------------------------------------------------------------ polling
ResetFailures_keep(cf) == cf

\* Reset failure counter on successful request
ResetFailures(cf) == 0

\* consecutive_failures >= max_consecutive_failures
AbortNow(cf) == cf >= max_consecutive_failures
IsComplete_orFailed(s) == s \in {"COMPLETE", "FAILED"}

\* current_status == "COMPLETE"
IsComplete(s) == s = "COMPLETE"
FirstFile_last(files) == files[Len(files)]

\* files[0]
FirstFile(files) == Head(files)

\* The statuses on which the enhanced variant's _wait_for_inference returns.
EnhancedDone(s) == s \in {"COMPLETED", "FAILED"}

\* while elapsed_time < max_wait_time; enhanced: for _ in range(max_wait // 5)
LoopGoesOn(v, el, n) ==
    IF v = "enhanced" THEN n < max_wait_time \div check_interval
    ELSE el < max_wait_time

\* _download_result_files up to its GET (production).
ProductionComplete(cf, el, data) ==
    IF data.files = <<>>
    THEN Decision("done", Outcome("no_files", NoErr, el, ""), cf, el, data)
    ELSE IF FirstFile(data.files) = NoUrl
    THEN Decision("done", Outcome("no_url", NoErr, el, ""), cf, el, data)
    ELSE Decision("download", NoOutcome, cf, el, data)

current_status_default_failed(r) == IF r.status = NoStatus THEN "FAILED" ELSE r.status

\* inference_data.get("status", "UNKNOWN")
current_status(r) == IF r.status = NoStatus THEN "UNKNOWN" ELSE r.status

\* One pass of the body of _wait_for_completion_with_retry after the request.
ProductionPoll(t, r, e, cf, el) ==
    IF t = "raised" \/ r.kind \in {"null", "error"}
    THEN LET err == IF t = "raised" THEN e
                    ELSE IF r.kind = "null" THEN Err("invalid_structure", "none")
                    ELSE Err("api_error", r.message)
             n == cf + 1
         IN  IF AbortNow(n)
             THEN Decision("done", Outcome("aborted", err, NoTime, ""), n, el, NoData)
             ELSE Decision("sleep", NoOutcome, n, el, NoData)
    ELSE IF r.kind = "not_found"
    THEN Decision("done", Outcome("not_found", NoErr, NoTime, ""), cf, el, NoData)
    ELSE LET data == InferenceData(r.status, r.files)
             c == ResetFailures(cf)
         IN  IF IsComplete(current_status(r)) THEN ProductionComplete(c, el, data)
             ELSE IF current_status(r) = "FAILED"
             THEN Decision("done", Outcome("failed", NoErr, el, ""), c, el, data)
             ELSE IF current_status(r) = "CANCELLED"
             THEN Decision("done", Outcome("cancelled", NoErr, el, ""), c, el, data)
             ELSE Decision("sleep", NoOutcome, c, el, NoData)

\* One pass of the loop body of the fully-working and secure variants: no
\* try, so what the request raises (or a null payload's TypeError) leaves the
\* handler and is caught by handle_call_tool.
PlainPoll(v, t, r, e, el) ==
    IF t = "raised"
    THEN Decision("done", Outcome("tool_error", e, NoTime, ""), 0, el, NoData)
    ELSE IF r.kind = "null"
    THEN Decision("done", Outcome("tool_error", Err("type", "none"), NoTime, ""), 0, el, NoData)
    ELSE IF r.kind = "not_found"
    THEN Decision("done", Outcome("not_found", NoErr, NoTime, ""), 0, el, NoData)
    ELSE IF r.status = NoStatus              \* inference_data["status"]
    THEN Decision("done", Outcome("tool_error", Err("key", "none"), NoTime, ""), 0, el, NoData)
    ELSE LET data == InferenceData(r.status, r.files) IN
         IF IsComplete(r.status)
         THEN IF data.files # <<>>
              THEN Decision("download", NoOutcome, 0, el, data)
              ELSE Decision("done", Outcome("no_files", NoErr, el, ""), 0, el, data)
         ELSE IF r.status = "FAILED"
         THEN Decision("done", Outcome("failed", NoErr, el, ""), 0, el, data)
         ELSE IF r.status = "CANCELLED"
         THEN Decision("done", Outcome("cancelled", NoErr, el, ""), 0, el, data)
         ELSE IF v = "secure"
         THEN \* increment time, then sleep only if the loop continues
              IF el + check_interval < max_wait_time
              THEN Decision("sleep", NoOutcome, 0, el + check_interval, NoData)
              ELSE Decision("poll", NoOutcome, 0, el + check_interval, NoData)
         ELSE Decision("sleep", NoOutcome, 0, el, NoData)

\* One pass of the loop body of _wait_for_inference (enhanced): every
\* exception is logged and followed by the sleep; the poll's inference has no
\* "files" member (the query selects "outputs").
EnhancedPoll(a, t, r) ==
    IF t = "raised" \/ r.kind # "inferences"
    THEN Decision("sleep", NoOutcome, 0, 0, NoData)
    ELSE IF EnhancedDone(r.status)
    THEN EnhancedSave(a, r.status, <<>>)
    ELSE Decision("sleep", NoOutcome, 0, 0, NoData)

AfterPoll(v, a, t, r, e, cf, el) ==
    IF v = "production" THEN ProductionPoll(t, r, e, cf, el)
    ELSE IF v = "enhanced" THEN EnhancedPoll(a, t, r)
    ELSE PlainPoll(v, t, r, e, el)

\* What the loop's exit by its condition returns.
TimeoutOutcome(v) ==
    IF v = "enhanced"
    THEN Outcome("creation_error", Err("timeout", "none"), NoTime, "")
    ELSE Outcome("timeout", NoErr, max_wait_time, "")

\* The loops of fully and secure are left by break (fully returns at once
\* when the job is not found) and followed by
\* "if elapsed_time >= max_wait_time", which appends the time-out text to
\* what the loop has written; an exception passes it by.
AfterLoop(v, out, el) ==
    IF /\ v \in {"fully", "secure"}
       /\ out.kind # "tool_error"
       /\ ~(v = "fully" /\ out.kind = "not_found")
       /\ el >= max_wait_time
    THEN [out EXCEPT !.msg = "timeout"]
    ELSE out

\* The service's view of a status poll: it failed when no inference list
\* was delivered (the request raised, or the field resolved to null or Error).
PollFailed(t, r) == t = "raised" \/ r.kind \in {"null", "error"}
ObservedPollError(t, r, e) ==
    IF t = "raised" THEN e
    ELSE IF r.kind = "null" THEN Err("invalid_structure", "none")
    ELSE Err("api_error", r.message)

wait_poll ==
    /\ pc = "poll"
    /\ LoopGoesOn(variant, elapsed_time, polls)
    /\ pc' = "await_status"
    /\ polls' = polls + 1
    /\ BeginRequest("status")
    /\ UNCHANGED << variant, args, prompt, inference_response, loopVars, outcome,
                    submissions, sleeps, overrun, pollObs, downloads, written,
                    download_statuses, mkdirs >>
    /\ UNCHANGED notJobVars

wait_timeout ==
    /\ pc = "poll"
    /\ ~LoopGoesOn(variant, elapsed_time, polls)
    /\ pc' = "done"
    /\ outcome' = TimeoutOutcome(variant)
    /\ UNCHANGED << variant, args, prompt, transportVars, inference_response,
                    loopVars, submissions, polls, sleeps, overrun, pollObs,
                    downloads, written,
                    download_statuses, mkdirs >>
    /\ UNCHANGED notJobVars

wait_after_poll ==
    /\ pc = "await_status"
    /\ tpc \in {"returned", "raised"}
    /\ LET d == AfterPoll(variant, args, tpc, result, raised,
                          consecutive_failures, elapsed_time) IN
         /\ pc' = d.pc
         /\ outcome' = IF d.pc = "done" THEN AfterLoop(variant, d.outcome, d.el)
                       ELSE d.outcome
         /\ consecutive_failures' = d.cf
         /\ elapsed_time' = d.el
         /\ inference_data' = d.data
    /\ failRun' = IF PollFailed(tpc, result) THEN Sat(failRun + 1, MaxRun) ELSE 0
    /\ lastPollErr' = IF PollFailed(tpc, result)
                      THEN ObservedPollError(tpc, result, raised)
                      ELSE NoErr
    /\ sawTerminal' = (sawTerminal \/
                       (tpc = "returned" /\ result.kind = "inferences"
                        /\ result.status \in Terminal))
    /\ EndRequest
    /\ UNCHANGED << variant, args, prompt, inference_response, submissions, polls,
                    sleeps, overrun, downloads, written,
                    download_statuses, mkdirs >>
    /\ UNCHANGED notJobVars

\* await asyncio.sleep(check_interval); the production and fully-working
\* loops count the interval after the sleep, the secure loop before it, the
\* enhanced loop not at all.
wait_sleep ==
    /\ pc = "sleep"
    /\ pc' = "poll"
    /\ sleeps' = sleeps + 1
    /\ elapsed_time' = IF variant \in {"production", "fully"}
                       THEN elapsed_time + check_interval
                       ELSE elapsed_time
    /\ lastPollErr' = NoErr
    /\ UNCHANGED << variant, args, prompt, transportVars, inference_response,
                    consecutive_failures, inference_data, outcome,
                    submissions, polls, overrun, failRun, sawTerminal,
                    downloads, written,
                    download_statuses, mkdirs >>
    /\ UNCHANGED notJobVars

\* ------------------------------------------------------------ download

\* The data-plane GET: 200, another status (204, 404 here), or 0 for
\* client.get raising.  A null URL makes client.get raise before any request is sent.
\* 204 stands for the 2xx statuses other than 200.
DownloadReplies(url) == IF url = NoUrl THEN {0} ELSE {200, 204, 404, 0}

\* The reply after which the body is written to the target: status 200 in
\* _download_result_files; in enhanced _download_file every status that
\* raise_for_status lets through.
Saved(v, reply) ==
    IF v = "enhanced" THEN reply \in {200, 204} ELSE reply = 200

AfterDownload(v, reply, data, el) ==
    IF v = "enhanced"
    THEN IF Saved(v, reply)
         THEN Outcome("created", NoErr, NoTime, data.status)
         ELSE Outcome("creation_error", Err("download", "none"), NoTime, "")
    ELSE IF reply = 200 THEN Outcome("downloaded", NoErr, el, "")
    ELSE IF reply = 0 THEN Outcome("download_error", NoErr, el, "")
    ELSE Outcome("download_http", NoErr, el, "")

download_result_files ==
    /\ pc = "download"
    /\ LET url == FirstFile(inference_data.files) IN
       \E reply \in DownloadReplies(url) :
         /\ downloads' = IF url = NoUrl THEN downloads ELSE Append(downloads, url)
         /\ written' = IF Saved(variant, reply) THEN Append(written, url)
                      ELSE written
         /\ download_statuses' = Append(download_statuses, reply)
         /\ mkdirs' = IF Saved(variant, reply) THEN mkdirs + 1 ELSE mkdirs
         /\ outcome' = AfterLoop(variant,
                                 AfterDownload(variant, reply, inference_data,
                                               elapsed_time),
                                 elapsed_time)
    /\ pc' = "done"
    /\ UNCHANGED << variant, args, prompt, transportVars, inference_response,
                    loopVars, submissions, polls, sleeps, overrun, pollObs >>
    /\ UNCHANGED notJobVars

\* ------------------------------------------------------------ token shape
\* token_manager.py.  A string is the sequence of its characters.
Rep(c, n) == [i \in 1..n |-> c]
Str4(a, b, c, d) == << a, b, c, d >>
pat_ == Str4("p", "a", "t", "_")

TokenMinLen == 50
TokenMaxLen == 200

Letters == {"a", "f", "g", "p", "t", "F", "Z"}
Digits == {"0", "9"}
\* [A-Za-z0-9_-]
TokenBodyChars == Letters \cup Digits \cup {"_", "-"}
\* [0-9a-f]
HexChars == Digits \cup {"a", "f"}

\* str.startswith
StartsWith(s, prefix) ==
    Len(s) >= Len(prefix) /\ SubSeq(s, 1, Len(prefix)) = prefix

\* What a final "$" of re.match leaves to the pattern before it: "$" matches
\* at the end of the string and also just before a newline that ends it.
BeforeDollar(s) ==
    { s } \cup (IF s # <<>> /\ s[Len(s)] = "\n"
                THEN { SubSeq(s, 1, Len(s) - 1) }
                ELSE {})

AllIn(s, chars) == \A i \in 1..Len(s) : s[i] \in chars

\* re.match(r'^pat_[A-Za-z0-9_-]+$', token)
MatchesTokenPattern(s) ==
    \E b \in BeforeDollar(s) :
       /\ StartsWith(b, pat_)
       /\ Len(b) > Len(pat_)
       /\ AllIn(SubSeq(b, Len(pat_) + 1, Len(b)), TokenBodyChars)

validate_token_any_length(token) ==
    token # <<>> /\ StartsWith(token, pat_) /\ MatchesTokenPattern(token)
\* SecureTokenManager._validate_token
validate_token(token) ==
    IF token = <<>> THEN FALSE
    ELSE IF ~StartsWith(token, pat_) THEN FALSE
    ELSE IF Len(token) < TokenMinLen \/ Len(token) > TokenMaxLen THEN FALSE
    ELSE IF ~MatchesTokenPattern(token) THEN FALSE
    ELSE TRUE

\* The groups of the workspace id pattern and where each starts.
UuidGroups == << 8, 4, 4, 4, 12 >>
RECURSIVE GroupStart(_)
GroupStart(g) ==
    IF g = 1 THEN 1 ELSE GroupStart(g - 1) + UuidGroups[g - 1] + 1
UuidLen == GroupStart(Len(UuidGroups)) + UuidGroups[Len(UuidGroups)] - 1

\* re.match(r'^[0-9a-f]{8}-[0-9a-f]{4}-[0-9a-f]{4}-[0-9a-f]{4}-[0-9a-f]{12}$', workspace_id)
MatchesUuidPattern(s) ==
    \E b \in BeforeDollar(s) :
       /\ Len(b) = UuidLen
       /\ \A g \in 1..Len(UuidGroups) :
            /\ AllIn(SubSeq(b, GroupStart(g), GroupStart(g) + UuidGroups[g] - 1),
                     HexChars)
            /\ g > 1 => b[GroupStart(g) - 1] = "-"

Credentials(api_token, workspace_id) ==
    [api_token |-> api_token, workspace_id |-> workspace_id]
None == Credentials(<< "None" >>, << "None" >>)

\* EnvironmentTokenManager.get_token, of the values of the two variables
\* (os.getenv(..., "") of an unset variable is the empty string).
EnvGetToken(LAYER_API_TOKEN, LAYER_WORKSPACE_ID) ==
    LET api_token == Strip(LAYER_API_TOKEN)
        workspace_id == Strip(LAYER_WORKSPACE_ID)
    IN  IF api_token = <<>> \/ workspace_id = <<>> THEN None
        ELSE IF ~StartsWith(api_token, pat_) \/ Len(api_token) < TokenMinLen
        THEN None
        ELSE IF ~MatchesUuidPattern(workspace_id) THEN None
        ELSE Credentials(api_token, workspace_id)

\* The candidate tokens: pat_ (or another opening), a run of n letters, and an
\* ending that decides the case.
Token(opening, n, ending) == opening \o Rep("a", n) \o ending
Tokens ==
    { <<>>,
      Token(pat_, TokenMinLen - 5, <<>>),
      Token(pat_, TokenMinLen - 4, <<>>),
      Token(pat_, TokenMaxLen - 4, <<>>),
      Token(pat_, TokenMaxLen - 3, <<>>),
      Token(pat_, TokenMinLen - 8, << "Z", "9", "-", "_" >>),
      Token(pat_, TokenMinLen - 5, << "!" >>),
      Token(pat_, TokenMinLen - 5, << "\n" >>),
      Token(pat_, TokenMinLen - 6, << "\n", "\n" >>),
      Token(pat_, TokenMinLen - 6, << " ", "a" >>),
      Token(Str4("t", "o", "k", "_"), TokenMinLen - 4, <<>>),
      Token(<< "a" >> \o pat_, TokenMinLen - 5, <<>>),
      Token(<< " " >> \o pat_, TokenMinLen - 4, << " " >>),
      Token(pat_, TokenMaxLen - 4, << "\n" >>) }

\* The candidate workspace ids.
Uuid(c) ==
    Rep(c, 8) \o << "-" >> \o Rep(c, 4) \o << "-" >> \o Rep(c, 4)
        \o << "-" >> \o Rep(c, 4) \o << "-" >> \o Rep(c, 12)
WorkspaceIds ==
    { <<>>,
      Uuid("0"), Uuid("f"), Uuid("F"), Uuid("g"),
      Rep("0", UuidLen),
      Uuid("9") \o << "0" >>,
      SubSeq(Uuid("a"), 1, UuidLen - 1),
      << " " >> \o Uuid("a") \o << "\n" >> }

ShapeIdle ==
    /\ token_in = <<>>
    /\ workspace_id_in = <<>>
    /\ validate_returned = FALSE
    /\ token_ok = FALSE
    /\ env_returned = FALSE
    /\ env_credentials = None

\* ------------------------------------------------------------ credential store
\* token_manager.py: SecureTokenManager, LayerTokenManager, and the servers'
\* _load_credentials.  Two processes call into the store; every access to a
\* file (exists, read_bytes, the open and the write of write_bytes, unlink)
\* is one step.
Procs == {1, 2}

\* The text json.dumps makes of token_data, or some other text.  (The member
\* token_hash is written and never read.)
Doc(text, api_token, workspace_id) ==
    [text |-> text, api_token |-> api_token, workspace_id |-> workspace_id]
NoDoc == Doc("none", <<>>, <<>>)
MalformedDoc == Doc("malformed", <<>>, <<>>)
JsonDumps_token_only(token_data) == Doc("json", token_data.api_token, <<>>)
JsonDumps(token_data) ==
    Doc("json", token_data.api_token, token_data.workspace_id)
JsonLoadable(doc) == doc.text = "json"
JsonLoads(doc) == Credentials(doc.api_token, doc.workspace_id)

\* Contents of a file: absent, empty (opened for writing, nothing written
\* yet), a key, a Fernet token made with a key of a text, or other bytes.
\* ino tells files created at different times under one path apart.
File(kind, k, doc, ino) == [kind |-> kind, key |-> k, doc |-> doc, ino |-> ino]
Absent == File("absent", 0, NoDoc, 0)
Empty(ino) == File("empty", 0, NoDoc, ino)
Garbage(ino) == File("garbage", 0, NoDoc, ino)
KeyBytes(k) == File("key", k, NoDoc, 0)
NoBytes == File("none", 0, NoDoc, 0)
ReadBytes(file) == [file EXCEPT !.ino = 0]

\* Fernet(key) raises on anything that is not a key
ValidKey(bytes) == bytes.kind = "key"
\* Fernet(key).encrypt(data.encode())
FernetEncrypt(bytes, doc) == File("fernet", bytes.key, doc, 0)
\* Fernet(key).decrypt(encrypted_data) succeeds
FernetDecrypts(bytes, data) == data.kind = "fernet" /\ data.key = bytes.key

\* Length of the Fernet token of a text, in cipher blocks: the text is the
\* JSON object around the two strings, padded to whole blocks.
JsonOverhead == 71
CipherBlock == 16
TokenBlocks(data) ==
    (JsonOverhead + Len(data.doc.api_token) + Len(data.doc.workspace_id))
        \div CipherBlock + 1

\* f.write(data) at offset 0 of a file opened "wb": what the path holds
\* afterwards.  The write goes to the file that was opened; bytes another
\* writer put there beyond the end of data stay.
WriteBytes(file, data, ino) ==
    IF file.kind = "absent" \/ file.ino # ino THEN file
    ELSE IF file.kind = "fernet" /\ data.kind = "fernet"
            /\ TokenBlocks(file) > TokenBlocks(data)
    THEN Garbage(ino)
    ELSE [data EXCEPT !.ino = ino]

\* What a call hands back: nothing yet, a raised exception, a bool, or
\* credentials (None included).
Ret(kind, ok, creds) == [kind |-> kind, ok |-> ok, creds |-> creds]
Pending == Ret("pending", FALSE, None)
Raise == Ret("raised", FALSE, None)
ReturnBool(b) == Ret("bool", b, None)
ReturnCreds(c) == Ret("creds", c # None, c)

\* SecureTokenManager.get_token from json.loads on, once the key and the
\* file's bytes are in hand.
DecryptAndValidate(bytes, data) ==
    IF ~ValidKey(bytes) THEN Raise
    ELSE IF ~FernetDecrypts(bytes, data) THEN Raise
    ELSE IF ~JsonLoadable(data.doc) THEN Raise
    ELSE IF ~validate_token(JsonLoads(data.doc).api_token)
    THEN ReturnCreds(None)
    ELSE ReturnCreds(JsonLoads(data.doc))

\* except Exception of get_token: return None
get_token_except_reraise(r) == r
get_token_except(r) == IF r.kind = "raised" THEN ReturnCreds(None) ELSE r

\* except Exception of store_token and clear_token: return False
ReturnFalseOnRaise(r) == IF r.kind = "raised" THEN ReturnBool(FALSE) ELSE r

\* LayerTokenManager.get_credentials, given what secure_manager.get_token
\* handed back
get_credentials_env_first(secure, env) ==
    IF secure.kind = "raised" THEN secure
    ELSE IF EnvGetToken(env.LAYER_API_TOKEN, env.LAYER_WORKSPACE_ID) # None
    THEN ReturnCreds(EnvGetToken(env.LAYER_API_TOKEN, env.LAYER_WORKSPACE_ID))
    ELSE secure
get_credentials(secure, env) ==
    IF secure.kind = "raised" THEN secure
    ELSE IF secure.creds # None THEN secure
    ELSE ReturnCreds(EnvGetToken(env.LAYER_API_TOKEN, env.LAYER_WORKSPACE_ID))

\* How a call of kind o ends, given what the body of the store's method did.
Ending(o, r, env) ==
    IF o = "get_credentials" THEN get_credentials(get_token_except(r), env)
    ELSE ReturnFalseOnRaise(r)

\* _load_credentials of SecureLayerMCPServer ("secure") and of
\* EnhancedLayerMCPServer ("enhanced"), given what get_credentials handed
\* back: the (api_token, workspace_id) the server holds afterwards, None
\* where its constructor raised.
LoadCredentials(server, ret, env) ==
    IF ret.kind = "raised" THEN None
    ELSE IF ret.creds # None THEN ret.creds
    ELSE IF server = "secure"
    THEN Credentials(Strip(env.LAYER_API_TOKEN), Strip(env.LAYER_WORKSPACE_ID))
    ELSE IF env.LAYER_API_TOKEN = <<>> THEN None
    ELSE Credentials(env.LAYER_API_TOKEN, env.LAYER_WORKSPACE_ID)

\* What each server holds when it is the one that made the call.
Adoption(s, e) == [secure |-> s, enhanced |-> e]
NoAdoption == Adoption(None, None)
Adopted(o, ret, env) ==
    IF o = "get_credentials"
    THEN Adoption(LoadCredentials("secure", ret, env),
                  LoadCredentials("enhanced", ret, env))
    ELSE NoAdoption

\* The inputs.
Environ(t, w) == [LAYER_API_TOKEN |-> t, LAYER_WORKSPACE_ID |-> w]
EnvToken == Token(pat_, TokenMinLen - 5, << "-" >>)
Environs ==
    { Environ(<<>>, <<>>), Environ(EnvToken, Uuid("a")), Environ(EnvToken, <<>>) }

TokenA == Token(pat_, TokenMinLen - 4, <<>>)
TokenB == Token(pat_, TokenMinLen - 5, << "Z" >>)
ShortToken == Token(pat_, TokenMinLen - 5, <<>>)
StoreArgs ==
    { Credentials(TokenA, Uuid("0")), Credentials(TokenB, <<>>),
      Credentials(ShortToken, Uuid("0")) }

\* What the directory may hold when the first call starts: nothing; the
\* record of an earlier store_token; only the key (after clear_token); a
\* record whose key file was deleted; a corrupted record; a record whose
\* text is not JSON; a record whose token has no valid shape.
PriorCredentials == Credentials(Token(pat_, TokenMinLen - 5, << "9" >>), Uuid("9"))
Record(k, doc) == [FernetEncrypt(KeyBytes(k), doc) EXCEPT !.ino = 1]
Disk(k, t) == [key_file |-> k, token_file |-> t]
InitialDisks ==
    { Disk(Absent, Absent),
      Disk(KeyBytes(1), Record(1, JsonDumps(PriorCredentials))),
      Disk(KeyBytes(1), Absent),
      Disk(Absent, Record(1, JsonDumps(PriorCredentials))),
      Disk(KeyBytes(1), Garbage(1)),
      Disk(KeyBytes(1), Record(1, MalformedDoc)),
      Disk(KeyBytes(1), Record(1, JsonDumps(Credentials(ShortToken, Uuid("9"))))) }

\* A call that is over, as the observation variables remember it.
Call(p, o, ok, a, alone) ==
    [proc |-> p, op |-> o, ok |-> ok, args |-> a, solo |-> alone]
NoCall == Call(0, "none", FALSE, None, FALSE)

\* What SecureTokenManager.get_token would hand back of the two files as
\* they are.
StoredRecord(kf, tf) ==
    get_token_except(DecryptAndValidate(ReadBytes(kf), ReadBytes(tf))).creds
Snapshot(c, stored) == [call |-> c, stored |-> stored]

CredIdle ==
    /\ key_file = Absent
    /\ token_file = Absent
    /\ environ = Environ(<<>>, <<>>)
    /\ op = [p \in Procs |-> "none"]
    /\ step = [p \in Procs |-> "idle"]
    /\ call_id = [p \in Procs |-> 0]
    /\ call_args = [p \in Procs |-> None]
    /\ key = [p \in Procs |-> NoBytes]
    /\ encrypted_data = [p \in Procs |-> NoBytes]
    /\ opened = [p \in Procs |-> 0]
    /\ returned = [p \in Procs |-> Pending]
    /\ adopted = [p \in Procs |-> NoAdoption]
    /\ calls_made = 0
    /\ writes = [p \in Procs |-> {}]
    /\ solo = [p \in Procs |-> FALSE]
    /\ before = [p \in Procs |-> Snapshot(NoCall, None)]
    /\ last_done = NoCall

\* ------------------------------------------------------------ input files
\* A file as os.path sees it: missing, a directory, or a regular file of
\* some size in bytes.
MaxImageSize == 50 * 1024 * 1024
DiskFile(kind, size) == [kind |-> kind, size |-> size]
DiskFiles ==
    { DiskFile("missing", 0), DiskFile("directory", 0) }
        \cup { DiskFile("regular", n) : n \in {0, 1, MaxImageSize + 1} }
exists(f) == f.kind # "missing"
isfile(f) == f.kind = "regular"

UploadServers == {"production", "bugfixed", "fully"}

\* What is checked of a file before the first request for it goes out: the
\* loop's own os.path.exists test, then the tests at the head of
\* _upload_file_to_layer.  "ok" lets the file through.
Prechecked(server, f) ==
    IF ~exists(f)
    THEN IF server = "fully" THEN "skipped" ELSE "file not found"
    ELSE IF server = "production" /\ ~isfile(f) THEN "Path is not a file"
    ELSE "ok"

\* except Exception in the loop: fully only logs, the others keep the
\* failure with its reason.
Failure(i, reason) == [file |-> i, reason |-> reason]
RecordFailure_drop(server, failed, i, reason) == failed
RecordFailure(server, failed, i, reason) ==
    IF server = "fully" THEN failed ELSE Append(failed, Failure(i, reason))

\* The status test on the PUT's response.
PutAccepted(server, status) ==
    IF server = "fully" THEN status = 200 ELSE status \in {200, 201}

\* Replies of the upload's two requests; "raise" is the transport failing.
\* createUploadUrls resolves to uploadUrls whose first entry has a url and a
\* fileId ("urls"), has a null url or a null fileId, to an empty list, to an
\* Error {message} or to null.
UrlReplies == {"urls", "no_url", "no_file_id", "empty", "error", "null", "raise"}

SlotObtained_url_only(server, reply) == reply \in {"urls", "no_file_id"}

\* The request has given an upload slot the PUT can go to: production and
\* bugfixed want a url and a fileId; fully reads both by index and hands
\* the url to client.put, which raises on None before anything is sent.
SlotObtained(server, reply) ==
    IF server = "fully" THEN reply \in {"urls", "no_file_id"} ELSE reply = "urls"
PutReply(r, status) == [raised |-> r, status |-> status]
PutReplies ==
    { PutReply(TRUE, 0) } \cup { PutReply(FALSE, n) : n \in {200, 201, 204, 500} }

Request(o, i, files) == [op |-> o, file |-> i, files |-> files]
UploadResult(kind, files, named) == [kind |-> kind, files |-> files, named |-> named]
NoUploadResult == UploadResult("none", <<>>, <<>>)
Named(failed) == [k \in 1..Len(failed) |-> failed[k].file]

\* What the text handed to the caller says of the uploads: error_msg lists
\* the failures; response_text after a submission has the prompt, the type,
\* the size, the quality, the inference's id, status and date and the
\* completion result, so the failures it names are those of the result.
TextOf(r) == [kind |-> r.kind, named |-> r.named]

UploadIdle ==
    /\ upload_server = "production"
    /\ input_files = <<>>
    /\ file_index = 1
    /\ upload_pc = "loop"
    /\ file_urls = <<>>
    /\ failed_uploads = <<>>
    /\ upload_result = NoUploadResult
    /\ sent = <<>>
    /\ put_replies = <<>>
    /\ slot_replies = <<>>

\* ------------------------------------------------------------ parameters
\* An argument the caller gave or left out.  width, height and steps are
\* integers; guidance_scale, creativity and resemblance are in tenths.
Given(v) == [given |-> TRUE, value |-> v]
NotGiven == [given |-> FALSE, value |-> 0]
Get(a, default) == IF a.given THEN a.value ELSE default

\* max(lo, min(hi, v))
Clamp(lo, hi, v) ==
    LET m == IF v < hi THEN v ELSE hi
    IN IF lo > m THEN lo ELSE m

\* An optional parameter: left out when the argument is absent.
Optional_clamped(lo, hi, a) == IF a.given THEN Given(Clamp(lo, hi, a.value)) ELSE NotGiven

Parameters(w, h, st, g, c, r) ==
    [width |-> w, height |-> h, numInferenceSteps |-> st, guidanceScale |-> g,
     creativity |-> c, resemblance |-> r]

\* The parameters each server builds of the arguments.
BuildParameters(server, a) ==
    IF server = "production"
    THEN Parameters(Clamp(64, 2048, Get(a.width, 512)),
                    Clamp(64, 2048, Get(a.height, 512)),
                    Clamp(1, 100, Get(a.steps, 20)),
                    Clamp(10, 200, Get(a.guidance_scale, 75)),
                    Optional_clamped(0, 10, a.creativity),
                    Optional_clamped(0, 10, a.resemblance))
    ELSE Parameters(Get(a.width, 512), Get(a.height, 512), Get(a.steps, 20),
                    Get(a.guidance_scale, 75), a.creativity, a.resemblance)

ParamServers == {"production", "fully", "enhanced"}
Arguments(w, h, st, g, c, r) ==
    [width |-> w, height |-> h, steps |-> st, guidance_scale |-> g,
     creativity |-> c, resemblance |-> r]
NoArguments == Arguments(NotGiven, NotGiven, NotGiven, NotGiven, NotGiven, NotGiven)
NoParameters == Parameters(0, 0, 0, 0, NotGiven, NotGiven)
ArgumentSets ==
    { Arguments(w, h, st, g, c, r) :
        w \in {NotGiven} \cup { Given(v) : v \in {-1, 10, 64, 800, 2048, 10000} },
        h \in {NotGiven} \cup { Given(v) : v \in {63, 2049} },
        st \in {NotGiven} \cup { Given(v) : v \in {0, 1, 100, 101} },
        g \in {NotGiven} \cup { Given(v) : v \in {9, 10, 200, 205} },
        c \in {NotGiven} \cup { Given(v) : v \in {-1, 5, 11} },
        r \in {NotGiven} \cup { Given(v) : v \in {0, 15} } }

ParamIdle ==
    /\ param_server = "production"
    /\ arguments = NoArguments
    /\ parameters = NoParameters
    /\ parameters_built = FALSE

\* ------------------------------------------------------------ file names
\* Strings are sequences of one-character strings.  The words the code
\* looks for in a content type, and the extensions it answers with.
word ==
    [ image |-> << "i", "m", "a", "g", "e" >>,
      png |-> << "p", "n", "g" >>,
      jpeg |-> << "j", "p", "e", "g" >>,
      jpg |-> << "j", "p", "g" >>,
      gif |-> << "g", "i", "f" >>,
      svg |-> << "s", "v", "g" >>,
      webp |-> << "w", "e", "b", "p" >>,
      video |-> << "v", "i", "d", "e", "o" >>,
      mp4 |-> << "m", "p", "4" >>,
      webm |-> << "w", "e", "b", "m" >>,
      avi |-> << "a", "v", "i" >>,
      audio |-> << "a", "u", "d", "i", "o" >>,
      wav |-> << "w", "a", "v" >>,
      mp3 |-> << "m", "p", "3" >>,
      ogg |-> << "o", "g", "g" >>,
      model |-> << "m", "o", "d", "e", "l" >>,
      glb |-> << "g", "l", "b" >>,
      octet_stream |-> << "a", "p", "p", "l", "i", "c", "a", "t", "i", "o", "n", "/", "o", "c", "t", "e", "t", "-", "s", "t", "r", "e", "a", "m" >> ]
Ext(w) == << "." >> \o w

\* str.lower() on the letters A..Z.
Uppers == << "A", "B", "C", "D", "E", "F", "G", "H", "I", "J", "K", "L", "M", "N", "O", "P", "Q", "R", "S", "T", "U", "V", "W", "X", "Y", "Z" >>
Lowers == << "a", "b", "c", "d", "e", "f", "g", "h", "i", "j", "k", "l", "m", "n", "o", "p", "q", "r", "s", "t", "u", "v", "w", "x", "y", "z" >>
LowerChar(c) ==
    IF \E k \in 1..Len(Uppers) : Uppers[k] = c
    THEN Lowers[CHOOSE k \in 1..Len(Uppers) : Uppers[k] = c]
    ELSE c
Lower(s) == [i \in 1..Len(s) |-> LowerChar(s[i])]

\* w in s
Contains(s, w) ==
    \E i \in 1..(Len(s) - Len(w) + 1) : SubSeq(s, i, i + Len(w) - 1) = w
EndsWith(s, c) == s # <<>> /\ s[Len(s)] = c

\* rfind: the last position of c in s, 0 when there is none.
LastIndex(s, c) ==
    IF \E i \in 1..Len(s) : s[i] = c
    THEN CHOOSE i \in 1..Len(s) : s[i] = c /\ \A j \in (i + 1)..Len(s) : s[j] # c
    ELSE 0

\* pathlib: Path(s) drops trailing separators; name is the final component;
\* suffix is the name from its last dot on, unless that dot is the first
\* or the last character of the name; stem is the name without the suffix.
RECURSIVE PathOf(_)
PathOf(s) ==
    IF Len(s) > 1 /\ EndsWith(s, "/") THEN PathOf(SubSeq(s, 1, Len(s) - 1)) ELSE s
PathName(s) ==
    LET p == PathOf(s) IN SubSeq(p, LastIndex(p, "/") + 1, Len(p))
Suffix_first_dot(s) ==
    LET n == PathName(s)
        i == IF \E k \in 1..Len(n) : n[k] = "."
             THEN CHOOSE k \in 1..Len(n) : n[k] = "." /\ \A j \in 1..(k - 1) : n[j] # "."
             ELSE 0
    IN IF 1 < i /\ i < Len(n) THEN SubSeq(n, i, Len(n)) ELSE <<>>
Suffix(s) ==
    LET n == PathName(s)
        i == LastIndex(n, ".")
    IN IF 1 < i /\ i < Len(n) THEN SubSeq(n, i, Len(n)) ELSE <<>>
Stem(s) ==
    LET n == PathName(s) IN SubSeq(n, 1, Len(n) - Len(Suffix(s)))
\* with_suffix on a path of non-empty name
WithSuffix(s, e) ==
    LET p == PathOf(s) IN SubSeq(p, 1, Len(p) - Len(Suffix(p))) \o e
\* Path(d) / n
Join(d, n) == IF StartsWith(n, << "/" >>) THEN n ELSE PathOf(d) \o << "/" >> \o n

\* _determine_file_extension of production and of bugfixed, and the
\* in-line resolution of fully (which does not lower the content type).
determine_file_extension(server, content_type_, filename_) ==
    LET content_type_lower == IF server = "fully" THEN content_type_ ELSE Lower(content_type_)
        has(w) == Contains(content_type_lower, w)
    IN IF has(word.image)
       THEN IF has(word.png) THEN Ext(word.png)
            ELSE IF has(word.jpeg) \/ has(word.jpg) THEN Ext(word.jpg)
            ELSE IF has(word.gif) THEN Ext(word.gif)
            ELSE IF has(word.svg) THEN Ext(word.svg)
            ELSE IF server # "fully" /\ has(word.webp) THEN Ext(word.webp)
            ELSE Ext(word.png)
       ELSE IF has(word.video)
       THEN IF server = "fully" THEN Ext(word.mp4)
            ELSE IF has(word.mp4) THEN Ext(word.mp4)
            ELSE IF has(word.webm) THEN Ext(word.webm)
            ELSE IF server = "bugfixed" /\ has(word.avi) THEN Ext(word.avi)
            ELSE Ext(word.mp4)
       ELSE IF has(word.audio)
       THEN IF server = "fully" THEN Ext(word.wav)
            ELSE IF has(word.wav) THEN Ext(word.wav)
            ELSE IF has(word.mp3) THEN Ext(word.mp3)
            ELSE IF server = "bugfixed" /\ has(word.ogg) THEN Ext(word.ogg)
            ELSE Ext(word.wav)
       ELSE IF has(word.model) \/ has(word.octet_stream) THEN Ext(word.glb)
       ELSE IF Suffix(filename_) # <<>> THEN Suffix(filename_) ELSE Ext(word.png)

\* Where the download is written.
TargetPath(server, save_path_, filename_, ext_) ==
    IF EndsWith(save_path_, "/")
    THEN Join(save_path_,
              IF server = "production" THEN Stem(filename_) \o ext_
              ELSE IF server = "fully" THEN filename_ \o ext_
              ELSE filename_)
    ELSE IF Suffix(save_path_) = <<>>
    THEN WithSuffix(save_path_, IF server = "secure" THEN Ext(word.png) ELSE ext_)
    ELSE PathOf(save_path_)

\* The inputs.
Mime(major, sub) == major \o << "/" >> \o sub
Upper(s) ==
    [i \in 1..Len(s) |->
        IF \E k \in 1..Len(Lowers) : Lowers[k] = s[i]
        THEN Uppers[CHOOSE k \in 1..Len(Lowers) : Lowers[k] = s[i]]
        ELSE s[i]]
ContentTypes ==
    { Mime(word.image, t) : t \in {word.png, word.jpeg, word.jpg, word.gif, word.svg \o << "+", "x", "m", "l" >>, word.webp, << "b", "m", "p" >>} }
        \cup { Mime(word.video, t) : t \in {word.mp4, word.webm, word.avi, << "q", "u", "i", "c", "k", "t", "i", "m", "e" >>} }
        \cup { Mime(word.audio, t) : t \in {word.wav, word.mp3, word.ogg, << "f", "l", "a", "c" >>} }
        \cup { Mime(word.model, << "g", "l", "t", "f" >>), word.octet_stream, << "t", "e", "x", "t", "/", "p", "l", "a", "i", "n" >>, << "a", "p", "p", "l", "i", "c", "a", "t", "i", "o", "n", "/", "j", "s", "o", "n" >>, <<>>,
               Upper(Mime(word.image, word.gif)), Mime(<< "t", "e", "x", "t" >>, << "x", "-" >> \o word.model) }
FileNames ==
    { << "a" >> \o e : e \in {<<>>, << "." >>, Ext(word.png), Ext(word.glb), Ext(<< "f", "o", "o" >>), Ext(<< "t", "a", "r", ".", "g", "z" >>)} }
        \cup { Ext(<< "b", "a", "s", "h", "r", "c" >>) }
SavePaths ==
    { << "a", "s", "s", "e", "t", "s", "/" >>, << "o", "u", "t" >>, << "o", "u", "t" >> \o Ext(word.jpg), << "a", "s", "s", "e", "t", "s", "/" >> \o << "o", "u", "t" >>, << "d", "i", "r", ".", "v", "2", "/" >> \o << "o", "u", "t" >>, << "a", "s", "s", "e", "t", "s", "/" >> \o << "o", "u", "t" >> \o Ext(word.webp) }
PathServers == {"production", "bugfixed", "fully", "secure"}

PathIdle ==
    /\ path_server = "production"
    /\ content_type = <<>>
    /\ filename = <<>>
    /\ save_path = <<>>
    /\ ext = <<>>
    /\ full_path = <<>>
    /\ path_pc = "start"

\* ------------------------------------------------------------ tool calls
\* The tools each server dispatches on.
Tools(server) ==
    IF server = "secure"
    THEN {"create_asset", "get_workspace_info", "query_schema"}
    ELSE IF server = "enhanced"
    THEN {"create_inference", "remove_background", "refine_image", "generate_prompt",
          "describe_image", "get_workspace_info", "list_inferences", "create_style",
          "list_styles", "upload_file"}
    ELSE {"create_asset", "remove_background", "describe_image", "generate_prompt",
          "get_workspace_info"}
ToolNames == UNION { Tools(server) : server \in Variants } \cup {"no_such_tool"}

\* What a call can look like to the method that serves it.
ArgumentKinds == {"valid", "no_prompt", "prompt_not_a_string", "not_a_mapping"}
RemoteBehaviours ==
    {"ok", "transport_failure", "malformed_response", "submission_error",
     "poll_failure", "download_failure"}

\* How a method ends: it returns its text, or an exception of some class
\* leaves it.  Of the classes, some derive from Exception and some only
\* from BaseException.
Returned(text) == [kind |-> "text", text |-> text, class |-> "none"]
Raised(class) == [kind |-> "raised", text |-> "none", class |-> class]
NotEnded == [kind |-> "none", text |-> "none", class |-> "none"]
ExceptionClasses ==
    {"Exception", "KeyError", "TypeError", "AttributeError", "ValueError"}
BaseExceptionOnly == {"SystemExit", "KeyboardInterrupt"}

\* The ways the method serving the tool can end.  production's
\* _create_asset is one try block that turns every Exception into a text,
\* and its other methods only return a text.  In the other servers the
\* asset method reports some failures itself and lets the rest out: bad
\* arguments before its first guard, a request that raises, a response
\* without the expected members; download failures are caught where they
\* happen.  Their other methods are taken to end either way.
HandlerOutcomes(server, name, a, r) ==
    IF server = "production"
    THEN { Returned(IF name = "create_asset" /\ (a # "valid" \/ r # "ok")
                    THEN "failure" ELSE "success") }
    ELSE IF name \in {"create_asset", "create_inference"}
    THEN IF a = "not_a_mapping" THEN { Raised("AttributeError") }
         ELSE IF a = "no_prompt"
         THEN IF server = "enhanced" THEN { Raised("KeyError") }
              ELSE { Returned("failure") }
         ELSE IF r = "ok" THEN { Returned("success") }
         ELSE IF r \in {"submission_error", "download_failure"}
         THEN { Returned("failure") }
         ELSE IF server = "enhanced"
         THEN { Returned("failure") }
         ELSE IF r \in {"transport_failure", "poll_failure"}
         THEN { Raised("Exception") }
         ELSE { Returned("failure"), Raised("KeyError"), Raised("TypeError") }
    ELSE IF a = "valid" /\ r = "ok" THEN { Returned("success") }
    ELSE { Returned("failure") } \cup { Raised(c) : c \in ExceptionClasses }

\* except Exception
Caught_value_error_only(class) == class = "ValueError"
Caught(class) == class \notin BaseExceptionOnly

\* handle_call_tool around the method's outcome: a caught exception
\* becomes the error text, any other leaves handle_call_tool as it is.
HandleCallTool(o) ==
    IF o.kind = "raised" /\ Caught(o.class) THEN Returned("error") ELSE o

ToolIdle ==
    /\ tool_server = "production"
    /\ tool_name = "no_such_tool"
    /\ tool_arguments = "valid"
    /\ remote = "ok"
    /\ tool_pc = "called"
    /\ handler_outcome = NotEnded
    /\ tool_result = NotEnded

\* ------------------------------------------------------------ start-up
LoadServers == {"production", "bugfixed", "fully", "secure", "enhanced"}

\* How _load_credentials ends: the server holds a pair, a ValueError is
\* raised to the constructor's caller, or sys.exit(1) ends the process.
Loading(kind, creds) == [kind |-> kind, creds |-> creds]
NoCredentials == Credentials(<<>>, <<>>)

FallBack_strips(server, env) ==
    LET api_token == Strip(env.LAYER_API_TOKEN)
        workspace_id == Strip(env.LAYER_WORKSPACE_ID)
        missing == IF server = "enhanced" THEN api_token = <<>>
                   ELSE api_token = <<>> \/ workspace_id = <<>>
    IN IF missing /\ server = "fully"
       THEN Loading("exit", Credentials(api_token, workspace_id))
       ELSE IF missing /\ server # "secure"
       THEN Loading("raised", Credentials(api_token, workspace_id))
       ELSE Loading("loaded", Credentials(api_token, workspace_id))

\* The fall-back on the two environment variables.
FallBack(server, env) ==
    LET strips == server \in {"production", "secure"}
        api_token == IF strips THEN Strip(env.LAYER_API_TOKEN) ELSE env.LAYER_API_TOKEN
        workspace_id == IF strips THEN Strip(env.LAYER_WORKSPACE_ID)
                        ELSE env.LAYER_WORKSPACE_ID
        missing == IF server = "enhanced" THEN api_token = <<>>
                   ELSE api_token = <<>> \/ workspace_id = <<>>
    IN IF missing /\ server = "fully"
       THEN Loading("exit", Credentials(api_token, workspace_id))
       ELSE IF missing /\ server # "secure"
       THEN Loading("raised", Credentials(api_token, workspace_id))
       ELSE Loading("loaded", Credentials(api_token, workspace_id))

\* _load_credentials: the pair of the token manager when it is there and
\* yields one, the fall-back otherwise.
load_credentials(server, imported, ret, env) ==
    IF imported /\ ret.creds # None
    THEN Loading("loaded", ret.creds)
    ELSE FallBack(server, env)

\* The checks at the head of run: only secure has any.
RunExits(server, c) ==
    server = "secure" /\ (c.api_token = <<>> \/ c.workspace_id = <<>>)

\* The inputs.
LoadEnvirons ==
    { Environ(t, w) : t \in {<<>>, << " " >>, ShortToken, TokenA},
                      w \in {<<>>, << " " >>, Uuid("0"), Uuid("g")} }
StoredPairs == {None, PriorCredentials}

LoadIdle ==
    /\ load_server = "production"
    /\ manager_imported = TRUE
    /\ stored_pair = None
    /\ load_environ = Environ(<<>>, <<>>)
    /\ load_pc = "start"
    /\ held = NoCredentials
    /\ posted = NoCredentials

\* ------------------------------------------------------------ concurrent calls
Callers == {"A", "B"}
JobIds == << "1", "2" >>

\* arguments.get("save_path", "./assets/generated_asset.png")
DefaultSavePath ==
    << ".", "/", "a", "s", "s", "e", "t", "s", "/", "g", "e", "n", "e", "r", "a",
       "t", "e", "d", "_", "a", "s", "s", "e", "t" >> \o Ext(word.png)

\* file_info.get("name", f"result_{inference_data['id']}")
ResultName(name, id) ==
    Get(name, << "r", "e", "s", "u", "l", "t", "_" >> \o << id >>)

\* What the service keeps under the URL of the job's first file.
ContentOf(id) == << "b", "y", "t", "e", "s", "_" >> \o << id >>

\* The text a call returns, by its parts.
CallText(kind, id, path, size) ==
    [kind |-> kind, inference_id |-> id, path |-> path, size |-> size]
NoText == CallText("none", "", <<>>, 0)

\* open(full_path, 'wb') and f.write(content): the path holds content.
WriteFile(d, path, content) ==
    { f \in d : f.path # path } \cup { [path |-> path, content |-> content] }

CallSavePaths ==
    { NotGiven, Given(<< "a", "s", "s", "e", "t", "s", "/" >>),
      Given(<< "o", "u", "t" >>) }

CallIdle ==
    /\ call_save_path = [c \in Callers |-> NotGiven]
    /\ call_pc = [c \in Callers |-> "start"]
    /\ call_inference_id = [c \in Callers |-> ""]
    /\ call_full_path = [c \in Callers |-> <<>>]
    /\ call_text = [c \in Callers |-> NoText]
    /\ issued = {}
    /\ disk = {}
    /\ overlapped = FALSE

\* Every component but the job at rest.
OthersIdle ==
    /\ ShapeIdle /\ CredIdle /\ UploadIdle /\ ParamIdle /\ PathIdle /\ ToolIdle
    /\ LoadIdle
    /\ CallIdle

\* ------------------------------------------------------------ specification

ArgSets(v) ==
    IF v = "enhanced"
    THEN { [wait_for_completion |-> TRUE, save_path |-> s] : s \in BOOLEAN }
    ELSE { [wait_for_completion |-> w, save_path |-> TRUE] : w \in BOOLEAN }

JobInit ==
    /\ variant \in Variants
    /\ args \in ArgSets(variant)
    /\ pc = "start"
    /\ req = "none"
    /\ tpc = "idle"
    /\ attempt = 0
    /\ last_error = NoErr
    /\ result = NoPayload
    /\ raised = NoErr
    /\ inference_response = NoPayload
    /\ elapsed_time = 0
    /\ consecutive_failures = 0
    /\ inference_data = NoData
    /\ outcome = NoOutcome
    /\ lastResp = NoResp
    /\ attemptsMade = 0
    /\ waits = <<>>
    /\ submissions = 0
    /\ polls = 0
    /\ sleeps = 0
    /\ overrun = 0
    /\ failRun = 0
    /\ lastPollErr = NoErr
    /\ sawTerminal = FALSE
    /\ downloads = <<>>
    /\ written = <<>>
    /\ download_statuses = <<>>
    /\ prompt \in (IF variant = "enhanced" THEN {ValidPrompt} ELSE Prompts)
    /\ mkdirs = 0

Init == JobInit /\ OthersIdle

Next ==
    \/ create_asset_submit
    \/ make_graphql_request_attempt
    \/ make_graphql_request_backoff
    \/ create_asset_after_submit
    \/ wait_poll
    \/ wait_timeout
    \/ wait_after_poll
    \/ wait_sleep
    \/ download_result_files

Spec == Init /\ [][Next]_vars

\* ------------------------------------------------------------ ShapeSpec
\* The two shape checks applied to every candidate input.
JobIdle ==
    /\ JobInit
    /\ variant = "production"
    /\ args = [wait_for_completion |-> TRUE, save_path |-> TRUE]
    /\ prompt = ValidPrompt

validate_token_call ==
    /\ ~validate_returned
    /\ validate_returned' = TRUE
    /\ token_ok' = validate_token(token_in)
    /\ UNCHANGED << token_in, workspace_id_in, env_returned, env_credentials >>
    /\ UNCHANGED notShapeVars

env_get_token_call ==
    /\ ~env_returned
    /\ env_returned' = TRUE
    /\ env_credentials' = EnvGetToken(token_in, workspace_id_in)
    /\ UNCHANGED << token_in, workspace_id_in, validate_returned, token_ok >>
    /\ UNCHANGED notShapeVars

ShapeInit ==
    /\ JobIdle
    /\ CredIdle
    /\ UploadIdle
    /\ ParamIdle
    /\ PathIdle
    /\ ToolIdle
    /\ LoadIdle
    /\ CallIdle
    /\ token_in \in Tokens
    /\ workspace_id_in \in WorkspaceIds
    /\ validate_returned = FALSE
    /\ token_ok = FALSE
    /\ env_returned = FALSE
    /\ env_credentials = None

ShapeNext == validate_token_call \/ env_get_token_call

ShapeSpec == ShapeInit /\ [][ShapeNext]_shapeVars

\* ------------------------------------------------------------ UploadSpec
\* One call that uploads its input files and then submits the job.

\* The loop has dealt with file i, leaving the two lists as given: on to
\* the next file, or out of the loop, where production returns the
\* aggregated error when nothing was uploaded and bugfixed raises it;
\* bugfixed otherwise returns the uploaded files to its caller, production
\* and fully go on to the submission.
AfterFile(i, urls, failed) ==
    /\ file_urls' = urls
    /\ failed_uploads' = failed
    /\ IF i < Len(input_files)
       THEN /\ file_index' = i + 1
            /\ upload_pc' = "loop"
            /\ upload_result' = upload_result
       ELSE /\ file_index' = i
            /\ IF upload_server = "fully"
               THEN upload_pc' = "submit" /\ upload_result' = upload_result
               ELSE IF failed # <<>> /\ urls = <<>>
               THEN /\ upload_pc' = "done"
                    /\ upload_result' =
                         UploadResult(IF upload_server = "production"
                                      THEN "error_text" ELSE "raised",
                                      <<>>, Named(failed))
               ELSE IF upload_server = "production"
               THEN upload_pc' = "submit" /\ upload_result' = upload_result
               ELSE /\ upload_pc' = "done"
                    /\ upload_result' = UploadResult("returned", urls, <<>>)

FileFailed(i, reason) ==
    AfterFile(i, file_urls,
              RecordFailure(upload_server, failed_uploads, i, reason))

\* With no input files the call goes straight on.  Otherwise the loop
\* takes the next file: the checks, then the createUploadUrls request.
upload_file_begin ==
    /\ upload_pc = "loop"
    /\ IF input_files = <<>>
       THEN /\ IF upload_server = "bugfixed"
               THEN /\ upload_pc' = "done"
                    /\ upload_result' = UploadResult("returned", <<>>, <<>>)
               ELSE upload_pc' = "submit" /\ upload_result' = upload_result
            /\ UNCHANGED << file_index, file_urls, failed_uploads, sent >>
       ELSE LET i == file_index
                check == Prechecked(upload_server, input_files[i])
            IN IF check = "ok"
               THEN /\ sent' = Append(sent, Request("createUploadUrls", i, <<>>))
                    /\ upload_pc' = "urls"
                    /\ UNCHANGED << file_index, file_urls, failed_uploads,
                                    upload_result >>
               ELSE /\ FileFailed(i, check)
                    /\ sent' = sent
    /\ UNCHANGED << upload_server, input_files, put_replies, slot_replies >>
    /\ UNCHANGED notUploadVars

\* createUploadUrls is answered: without a usable URL the file has failed;
\* with one the file is read (which a directory does not allow) and PUT.
upload_file_urls ==
    /\ upload_pc = "urls"
    /\ \E reply \in UrlReplies :
         LET i == file_index
         IN /\ IF ~SlotObtained(upload_server, reply)
               THEN FileFailed(i, "Failed to get upload URL") /\ sent' = sent
               ELSE IF ~isfile(input_files[i])
               THEN FileFailed(i, "Failed to upload file") /\ sent' = sent
               ELSE /\ sent' = Append(sent, Request("PUT", i, <<>>))
                    /\ upload_pc' = "put"
                    /\ UNCHANGED << file_index, file_urls, failed_uploads,
                                    upload_result >>
            /\ slot_replies' =
                 Append(slot_replies, [file |-> i, slot |-> reply = "urls"])
    /\ UNCHANGED << upload_server, input_files, put_replies >>
    /\ UNCHANGED notUploadVars

\* The PUT is answered.
upload_file_put ==
    /\ upload_pc = "put"
    /\ \E reply \in PutReplies :
         LET i == file_index
         IN /\ put_replies' =
                 IF reply.raised THEN put_replies
                 ELSE Append(put_replies, [file |-> i, status |-> reply.status])
            /\ IF ~reply.raised /\ PutAccepted(upload_server, reply.status)
               THEN AfterFile(i, Append(file_urls, i), failed_uploads)
               ELSE FileFailed(i, "Failed to upload file")
    /\ UNCHANGED << upload_server, input_files, sent, slot_replies >>
    /\ UNCHANGED notUploadVars

\* The createInference request goes out with parameters["files"].
upload_submit ==
    /\ upload_pc = "submit"
    /\ sent' = Append(sent, Request("createInference", 0, file_urls))
    /\ upload_pc' = "done"
    /\ upload_result' = UploadResult("submitted", file_urls, <<>>)
    /\ UNCHANGED << upload_server, input_files, file_index, file_urls,
                    failed_uploads, put_replies, slot_replies >>
    /\ UNCHANGED notUploadVars

InputFileLists == UNION { [1..n -> DiskFiles] : n \in 0..MaxFiles }

UploadInit ==
    /\ JobIdle
    /\ ShapeIdle
    /\ CredIdle
    /\ ParamIdle
    /\ PathIdle
    /\ ToolIdle
    /\ LoadIdle
    /\ CallIdle
    /\ upload_server \in UploadServers
    /\ input_files \in InputFileLists
    /\ file_index = 1
    /\ upload_pc = "loop"
    /\ file_urls = <<>>
    /\ failed_uploads = <<>>
    /\ upload_result = NoUploadResult
    /\ sent = <<>>
    /\ put_replies = <<>>
    /\ slot_replies = <<>>

UploadNext ==
    \/ upload_file_begin
    \/ upload_file_urls
    \/ upload_file_put
    \/ upload_submit

UploadSpec == UploadInit /\ [][UploadNext]_uploadVars

\* ------------------------------------------------------------ ParamSpec
\* One call builds the parameters of its submission.
build_parameters ==
    /\ ~parameters_built
    /\ parameters' = BuildParameters(param_server, arguments)
    /\ parameters_built' = TRUE
    /\ UNCHANGED << param_server, arguments >>
    /\ UNCHANGED notParamVars

ParamInit ==
    /\ JobIdle
    /\ ShapeIdle
    /\ CredIdle
    /\ UploadIdle
    /\ PathIdle
    /\ ToolIdle
    /\ LoadIdle
    /\ CallIdle
    /\ param_server \in ParamServers
    /\ arguments \in ArgumentSets
    /\ parameters = NoParameters
    /\ parameters_built = FALSE

ParamNext == build_parameters

ParamSpec == ParamInit /\ [][ParamNext]_paramVars

\* ------------------------------------------------------------ PathSpec
\* One download: the extension is resolved (secure resolves none), then
\* the target path is made up (bugfixed leaves that to the server it
\* patches).
resolve_extension ==
    /\ path_pc = "start"
    /\ path_server # "secure"
    /\ ext' = determine_file_extension(path_server, content_type, filename)
    /\ path_pc' = IF path_server = "bugfixed" THEN "done" ELSE "resolved"
    /\ UNCHANGED << path_server, content_type, filename, save_path, full_path >>
    /\ UNCHANGED notPathVars

target_path ==
    /\ path_pc = IF path_server = "secure" THEN "start" ELSE "resolved"
    /\ full_path' = TargetPath(path_server, save_path, filename, ext)
    /\ path_pc' = "done"
    /\ UNCHANGED << path_server, content_type, filename, save_path, ext >>
    /\ UNCHANGED notPathVars

PathInit ==
    /\ JobIdle
    /\ ShapeIdle
    /\ CredIdle
    /\ UploadIdle
    /\ ParamIdle
    /\ ToolIdle
    /\ LoadIdle
    /\ CallIdle
    /\ path_server \in PathServers
    /\ content_type \in ContentTypes
    /\ filename \in FileNames
    /\ save_path \in SavePaths
    /\ ext = <<>>
    /\ full_path = <<>>
    /\ path_pc = "start"

PathNext == resolve_extension \/ target_path

PathSpec == PathInit /\ [][PathNext]_pathVars

\* ------------------------------------------------------------ ToolSpec
\* handle_call_tool dispatches on the name: a name the server does not
\* know is answered at once, any other starts the method that serves it.
handle_call_tool_dispatch ==
    /\ tool_pc = "called"
    /\ IF tool_name \in Tools(tool_server)
       THEN tool_pc' = "handler" /\ tool_result' = tool_result
       ELSE tool_pc' = "returned" /\ tool_result' = Returned("unknown tool")
    /\ UNCHANGED << tool_server, tool_name, tool_arguments, remote, handler_outcome >>
    /\ UNCHANGED notToolVars

\* The method ends, and handle_call_tool with it.
handle_call_tool_return ==
    /\ tool_pc = "handler"
    /\ \E o \in HandlerOutcomes(tool_server, tool_name, tool_arguments, remote) :
         /\ handler_outcome' = o
         /\ tool_result' = HandleCallTool(o)
    /\ tool_pc' = "returned"
    /\ UNCHANGED << tool_server, tool_name, tool_arguments, remote >>
    /\ UNCHANGED notToolVars

ToolInit ==
    /\ JobIdle
    /\ ShapeIdle
    /\ CredIdle
    /\ UploadIdle
    /\ ParamIdle
    /\ PathIdle
    /\ LoadIdle
    /\ CallIdle
    /\ tool_server \in Variants
    /\ tool_name \in ToolNames
    /\ tool_arguments \in ArgumentKinds
    /\ remote \in RemoteBehaviours
    /\ tool_pc = "called"
    /\ handler_outcome = NotEnded
    /\ tool_result = NotEnded

ToolNext == handle_call_tool_dispatch \/ handle_call_tool_return

ToolSpec == ToolInit /\ [][ToolNext]_toolVars

\* ------------------------------------------------------------ LoadSpec
\* The constructor: self.api_token = "", self.workspace_id = "", then
\* _load_credentials.
construct ==
    /\ load_pc = "start"
    /\ LET ret == get_credentials(ReturnCreds(stored_pair), load_environ)
           l == load_credentials(load_server, manager_imported, ret, load_environ)
       IN /\ load_pc' = IF l.kind = "loaded" THEN "constructed"
                        ELSE IF l.kind = "raised" THEN "raised"
                        ELSE "exited"
          /\ held' = l.creds
    /\ UNCHANGED << load_server, manager_imported, stored_pair, load_environ, posted >>
    /\ UNCHANGED notLoadVars

\* run (bugfixed has none).
run ==
    /\ load_pc = "constructed"
    /\ load_server # "bugfixed"
    /\ load_pc' = IF RunExits(load_server, held) THEN "exited" ELSE "serving"
    /\ UNCHANGED << load_server, manager_imported, stored_pair, load_environ, held,
                    posted >>
    /\ UNCHANGED notLoadVars

\* A tool call of the server sends its first request: the Authorization
\* header is "Bearer " + self.api_token, the variables' workspaceId is
\* self.workspace_id.  bugfixed has no run: its methods are called on the
\* constructed object.
post ==
    /\ \/ load_pc = "serving"
       \/ load_server = "bugfixed" /\ load_pc = "constructed"
    /\ load_pc' = "requested"
    /\ posted' = Credentials(held.api_token, held.workspace_id)
    /\ UNCHANGED << load_server, manager_imported, stored_pair, load_environ, held >>
    /\ UNCHANGED notLoadVars

LoadInit ==
    /\ JobIdle
    /\ ShapeIdle
    /\ CredIdle
    /\ UploadIdle
    /\ ParamIdle
    /\ PathIdle
    /\ ToolIdle
    /\ CallIdle
    /\ load_server \in LoadServers
    /\ manager_imported \in BOOLEAN
    /\ stored_pair \in StoredPairs
    /\ load_environ \in LoadEnvirons
    /\ load_pc = "start"
    /\ held = NoCredentials
    /\ posted = NoCredentials

LoadNext == construct \/ run \/ post

LoadSpec == LoadInit /\ [][LoadNext]_loadVars

\* ------------------------------------------------------------ TestSpec
\* test_enhanced.py: the two variables are set, the import of
\* LayerTokenManager (from auth) fails, EnhancedLayerMCPServer is
\* constructed and _create_inference is called on it with a prompt.
TestEnvirons ==
    { e \in LoadEnvirons : e.LAYER_API_TOKEN # <<>> /\ e.LAYER_WORKSPACE_ID # <<>> }

TestInit ==
    /\ JobInit
    /\ variant = "enhanced"
    /\ ShapeIdle
    /\ CredIdle
    /\ UploadIdle
    /\ ParamIdle
    /\ PathIdle
    /\ ToolIdle
    /\ CallIdle
    /\ load_server = "enhanced"
    /\ manager_imported = FALSE
    /\ stored_pair = None
    /\ load_environ \in TestEnvirons
    /\ load_pc = "start"
    /\ held = NoCredentials
    /\ posted = NoCredentials

\* The steps of _create_inference (the enhanced transport client has no
\* back-off).
create_inference ==
    /\ load_pc = "constructed"
    /\ \/ create_asset_submit
       \/ make_graphql_request_attempt
       \/ create_asset_after_submit
       \/ wait_poll
       \/ wait_timeout
       \/ wait_after_poll
       \/ wait_sleep
       \/ download_result_files

TestNext == construct \/ create_inference

TestSpec == TestInit /\ [][TestNext]_<< vars, loadVars >>

\* ------------------------------------------------------------ CallSpec
\* _create_asset up to the answer to createInference: the service creates a
\* job and names it, or the request fails.
call_create(c) ==
    /\ call_pc[c] = "start"
    /\ \E accepted \in BOOLEAN :
         IF accepted
         THEN LET id == JobIds[Cardinality(issued) + 1] IN
              /\ issued' = issued \cup {id}
              /\ call_inference_id' = [call_inference_id EXCEPT ![c] = id]
              /\ call_pc' = [call_pc EXCEPT ![c] = "poll"]
              /\ UNCHANGED call_text
         ELSE /\ call_pc' = [call_pc EXCEPT ![c] = "done"]
              /\ call_text' = [call_text EXCEPT ![c] =
                                  CallText("creation_error", "", <<>>, 0)]
              /\ UNCHANGED << issued, call_inference_id >>
    /\ overlapped' = (overlapped \/ \E o \in Callers \ {c} :
                                       call_pc[o] \notin {"start", "done"})
    /\ UNCHANGED << call_save_path, call_full_path, disk >>
    /\ UNCHANGED notCallVars

\* One pass of _wait_for_completion_with_retry whose poll is answered with
\* a terminal status (a pass that finds the job running changes nothing but
\* the time).
call_poll(c) ==
    /\ call_pc[c] = "poll"
    /\ \E status \in {"COMPLETE", "FAILED"} :
         IF status = "COMPLETE"
         THEN /\ call_pc' = [call_pc EXCEPT ![c] = "download"]
              /\ UNCHANGED call_text
         ELSE /\ call_pc' = [call_pc EXCEPT ![c] = "done"]
              /\ call_text' = [call_text EXCEPT ![c] =
                                  CallText("failed", call_inference_id[c], <<>>, 0)]
    /\ UNCHANGED << call_save_path, call_inference_id, call_full_path, issued, disk,
                    overlapped >>
    /\ UNCHANGED notCallVars

\* _download_result_files from the answer to its GET on: no await lies
\* between the answer and the end of the write.
call_download(c) ==
    /\ call_pc[c] = "download"
    /\ \E status_code \in {200, 404}, name \in {NotGiven, Given(<< "a" >> \o Ext(word.png))} :
         IF status_code = 200
         THEN LET id == call_inference_id[c]
                  filename_ == ResultName(name, id)
                  ext_ == determine_file_extension("production",
                                                   Mime(word.image, word.png), filename_)
                  path == TargetPath("production",
                                     Get(call_save_path[c], DefaultSavePath),
                                     filename_, ext_)
              IN /\ call_full_path' = [call_full_path EXCEPT ![c] = path]
                 /\ disk' = WriteFile(disk, path, ContentOf(id))
                 /\ call_text' = [call_text EXCEPT ![c] =
                                     CallText("saved", id, path, Len(ContentOf(id)))]
         ELSE /\ call_text' = [call_text EXCEPT ![c] =
                                  CallText("download_http", call_inference_id[c], <<>>, 0)]
              /\ UNCHANGED << call_full_path, disk >>
    /\ call_pc' = [call_pc EXCEPT ![c] = "done"]
    /\ UNCHANGED << call_save_path, call_inference_id, issued, overlapped >>
    /\ UNCHANGED notCallVars

CallInit ==
    /\ JobIdle
    /\ ShapeIdle
    /\ CredIdle
    /\ UploadIdle
    /\ ParamIdle
    /\ PathIdle
    /\ ToolIdle
    /\ LoadIdle
    /\ call_save_path \in [Callers -> CallSavePaths]
    /\ call_pc = [c \in Callers |-> "start"]
    /\ call_inference_id = [c \in Callers |-> ""]
    /\ call_full_path = [c \in Callers |-> <<>>]
    /\ call_text = [c \in Callers |-> NoText]
    /\ issued = {}
    /\ disk = {}
    /\ overlapped = FALSE

CallNext == \E c \in Callers : call_create(c) \/ call_poll(c) \/ call_download(c)

CallSpec == CallInit /\ [][CallNext]_callVars

\* ------------------------------------------------------------ claims

\* The time the polling loop has spent asleep: its interval waits and the
\* transport client's back-off sleeps (request latency not counted).
TimeSlept == check_interval * sleeps + overrun

\* The exception kind one exchange leads to, read off the exchange itself.
FailureKind(resp) ==
    IF resp.status = 0 THEN "transport"
    ELSE IF resp.status # 200 THEN "http"
    ELSE IF resp.errors = "empty" THEN "index"
    ELSE "graphql"

\* C1: in _wait_for_completion_with_retry polling is aborted, reporting the
\* error of the last poll, exactly when three status polls in a row have
\* failed; the counter equals the length of the current run of failed polls
\* (a successful poll resets it to zero), so failures that are not
\* consecutive never add up to an abort.
C1_AbortExactlyAfterThreeInARow ==
    variant = "production" =>
        /\ (outcome.kind = "aborted") <=> (failRun >= max_consecutive_failures)
        /\ outcome.kind = "aborted" =>
              /\ failRun = max_consecutive_failures
              /\ lastPollErr # NoErr
              /\ outcome.err = lastPollErr
        /\ outcome.kind # "not_found" => consecutive_failures = failRun

C1_Witness ==
    /\ variant = "production"
    /\ outcome.kind = "aborted"
    /\ polls >= 6
    /\ outcome.err = Err("api_error", "m2")

\* C2: the time spent in the polling loop never exceeds deadline + interval:
\* at most 60 status polls, each followed by at most one interval wait.
C2_LoopWithinDeadlinePlusInterval ==
    /\ polls <= max_wait_time \div check_interval
    /\ sleeps <= polls
    /\ TimeSlept <= max_wait_time + check_interval

\* C3: once three status polls in a row have failed, polling has ended with
\* a failure report; it does not go on towards the deadline.
C3_ThreeFailuresEndPolling ==
    failRun >= max_consecutive_failures =>
        /\ pc = "done"
        /\ outcome.kind \in {"aborted", "tool_error"}

\* C4: in every variant, once a status poll has observed COMPLETE, FAILED or
\* CANCELLED, no further status poll is issued in that call.
C4_NoPollAfterTerminal == [][sawTerminal => polls' = polls]_vars

\* C5 as stated: when polling (in _create_asset) observes COMPLETE with at
\* least one output file, exactly one download is attempted and it targets
\* the first file; with no output files there is no download and the outcome
\* is the empty-result warning.
C5_CompleteDownloadsFirstFile ==
    (variant # "enhanced" /\ pc = "done" /\ inference_data.status = "COMPLETE") =>
        IF inference_data.files # <<>>
        THEN downloads = << Head(inference_data.files) >>
        ELSE downloads = <<>> /\ outcome.kind = "no_files" /\ outcome.err = NoErr

\* C5 amended: the download is attempted, once and to the first file, when
\* that first file carries a URL; a first file without a URL leads to no
\* download request (the outcome says that no URL is available, or that the
\* download failed); no output files: no download, the empty-result warning.
C5_CompleteDownloadsFirstFileWithUrl ==
    (variant # "enhanced" /\ pc = "done" /\ inference_data.status = "COMPLETE") =>
        IF inference_data.files = <<>>
        THEN downloads = <<>> /\ outcome.kind = "no_files" /\ outcome.err = NoErr
        ELSE IF Head(inference_data.files) = NoUrl
        THEN downloads = <<>> /\ outcome.kind \in {"no_url", "download_error"}
        ELSE /\ downloads = << Head(inference_data.files) >>
             /\ outcome.kind \in {"downloaded", "download_http", "download_error"}

C5_Witness ==
    /\ pc = "done"
    /\ variant = "fully"
    /\ inference_data.status = "COMPLETE"
    /\ inference_data.files = << "u2", "u1" >>
    /\ downloads = << "u2" >>
    /\ polls >= 2

\* C6: when polling (in _create_asset) observes FAILED or CANCELLED, the
\* outcome reports that state and the elapsed time (the interval waits so
\* far), no download request is made and no file is written.
C6_FailedOrCancelledNoDownload ==
    (variant # "enhanced" /\ pc = "done"
        /\ inference_data.status \in {"FAILED", "CANCELLED"}) =>
        /\ outcome.kind = (IF inference_data.status = "FAILED"
                           THEN "failed" ELSE "cancelled")
        /\ outcome.elapsed = check_interval * sleeps
        /\ downloads = <<>>
        /\ written = <<>>

C6_Witness ==
    /\ pc = "done"
    /\ variant = "secure"
    /\ inference_data.status = "CANCELLED"
    /\ inference_data.files # <<>>
    /\ outcome.elapsed = 2 * check_interval

\* C7: if createInference resolves to an Error with a message, the call ends
\* with that message surfaced, and no submission, status poll or download
\* follows that response.
ErrorReplied ==
    \/ (req = "create" /\ tpc = "returned" /\ result.kind = "error")
    \/ inference_response.kind = "error"
C7_SubmissionErrorIsTerminal ==
    /\ [](inference_response.kind = "error" =>
            /\ pc = "done"
            /\ outcome.kind = "remote_error"
            /\ outcome.msg = inference_response.message
            /\ tpc = "idle"
            /\ polls = 0
            /\ downloads = <<>>)
    /\ [][ErrorReplied => /\ submissions' = submissions
                          /\ polls' = polls
                          /\ downloads' = downloads]_vars

C7_Witness ==
    /\ variant = "production"
    /\ inference_response.kind = "error"
    /\ outcome.msg = "m2"
    /\ submissions = 2

\* C8: one transport request (production) makes at most 3 attempts, stops at
\* the first success, sleeps 2^attempt seconds (1, then 2) between a failed
\* attempt and the next and not after the last, and after the third failure
\* raises an error wrapping the error of the last attempt.
C8_RetryPolicy ==
    (variant = "production" /\ req # "none") =>
        /\ attemptsMade <= max_retries
        /\ \A i \in 1..Len(waits) : waits[i] = 2 ^ (i - 1)
        /\ Len(waits) = IF tpc = "attempting" THEN attemptsMade
                        ELSE attemptsMade - 1
        /\ tpc = "backoff" => attemptsMade < max_retries
        /\ tpc = "returned" => lastResp = HttpResponse(200, "absent")
        /\ tpc = "raised" =>
              /\ attemptsMade = max_retries
              /\ raised = Err("retries_exhausted", FailureKind(lastResp))

C8_Witness ==
    /\ variant = "production"
    /\ tpc = "raised"
    /\ waits = << 1, 2 >>
    /\ raised = Err("retries_exhausted", "http")

\* C9: a delivered response that carries an application-level error (a
\* non-empty error list) makes the request fail after exactly one attempt,
\* with no retry.
C9_ApplicationErrorNotRetried ==
    (attemptsMade >= 1 /\ lastResp.status = 200 /\ lastResp.errors = "nonempty") =>
        tpc = "raised" /\ attemptsMade = 1

FreshKey(id) == KeyBytes(id + 1)
FreshIno(id) == id + 1

Resting(p) == step[p] \in {"idle", "done"}
FirstStep(o) ==
    IF o = "store_token" THEN "store_key"
    ELSE IF o = "clear_token" THEN "clear_exists"
    ELSE "get_read"

\* The call of p goes on at step s with these locals.
Goto(p, s, k, d, o) ==
    /\ step' = [step EXCEPT ![p] = s]
    /\ key' = [key EXCEPT ![p] = k]
    /\ encrypted_data' = [encrypted_data EXCEPT ![p] = d]
    /\ opened' = [opened EXCEPT ![p] = o]
    /\ UNCHANGED << returned, adopted, last_done >>

\* The call of p ends; r is what the body of the store's method did.
Finish(p, r) ==
    LET ret == Ending(op[p], r, environ) IN
    /\ step' = [step EXCEPT ![p] = "done"]
    /\ returned' = [returned EXCEPT ![p] = ret]
    /\ adopted' = [adopted EXCEPT ![p] = Adopted(op[p], ret, environ)]
    /\ last_done' = Call(p, op[p], ret.ok, call_args[p], solo[p])
    /\ key' = [key EXCEPT ![p] = NoBytes]
    /\ encrypted_data' = [encrypted_data EXCEPT ![p] = NoBytes]
    /\ opened' = [opened EXCEPT ![p] = 0]

\* _encrypt_data once the key is in hand, then on to write_bytes
EncryptAndGoOn(p, k) ==
    IF ValidKey(k)
    THEN Goto(p, "token_open", k, FernetEncrypt(k, JsonDumps(call_args[p])),
              opened[p])
    ELSE Finish(p, Raise)

Wrote(p, name) == writes' = [writes EXCEPT ![p] = writes[p] \cup {name}]
SameCall == UNCHANGED << environ, op, call_id, call_args, calls_made, solo,
                         before >>

\* A process calls store_credentials, clear_token or get_credentials (the
\* last one directly or as a server's _load_credentials).  What a call
\* handed back is kept until the next call starts.  The processes are
\* alike: when none is in a call, process 1 makes the next one.
Started(p, f, mine, blank) ==
    [q \in Procs |-> IF q = p THEN mine ELSE IF Resting(q) THEN blank ELSE f[q]]

call(p) ==
    /\ Resting(p)
    /\ calls_made < MaxCalls
    /\ (\A q \in Procs : Resting(q)) => p = 1
    /\ \E o \in {"store_token", "clear_token", "get_credentials"},
          a \in StoreArgs \cup {None} :
         /\ (o = "store_token") <=> (a # None)
         /\ op' = Started(p, op, o, "none")
         /\ call_args' = Started(p, call_args, a, None)
         /\ step' = Started(p, step, FirstStep(o), "idle")
    /\ call_id' = Started(p, call_id, calls_made + 1, 0)
    /\ calls_made' = calls_made + 1
    /\ returned' = Started(p, returned, Pending, Pending)
    /\ adopted' = Started(p, adopted, NoAdoption, NoAdoption)
    /\ writes' = Started(p, writes, {}, {})
    /\ solo' = [q \in Procs |-> q = p /\ \A r \in Procs \ {p} : Resting(r)]
    /\ before' = Started(p, before,
                         Snapshot(last_done, StoredRecord(key_file, token_file)),
                         Snapshot(NoCall, None))
    /\ last_done' = NoCall
    /\ UNCHANGED << diskVars, environ, key, encrypted_data, opened >>
    /\ UNCHANGED notCredVars

\* store_token up to the key: _validate_token, then _get_or_create_key's
\* exists() and read_bytes(), or Fernet.generate_key()
store_token_key(p) ==
    /\ step[p] = "store_key"
    /\ IF ~validate_token(call_args[p].api_token)
       THEN Finish(p, Raise)
       ELSE IF key_file.kind = "absent"
       THEN Goto(p, "key_open", FreshKey(call_id[p]), encrypted_data[p], opened[p])
       ELSE EncryptAndGoOn(p, ReadBytes(key_file))
    /\ UNCHANGED << diskVars, writes >>
    /\ SameCall
    /\ UNCHANGED notCredVars

\* _get_or_create_key: self.key_file.write_bytes(key), the open
get_or_create_key_open(p) ==
    /\ step[p] = "key_open"
    /\ key_file' = Empty(0)
    /\ Wrote(p, "key")
    /\ Goto(p, "key_write", key[p], encrypted_data[p], opened[p])
    /\ UNCHANGED token_file
    /\ SameCall
    /\ UNCHANGED notCredVars

\* _get_or_create_key: self.key_file.write_bytes(key), the write; chmod;
\* return key to _encrypt_data or to _decrypt_data
get_or_create_key_write(p) ==
    /\ step[p] = "key_write"
    /\ key_file' = WriteBytes(key_file, key[p], 0)
    /\ IF op[p] = "store_token"
       THEN EncryptAndGoOn(p, key[p])
       ELSE Finish(p, DecryptAndValidate(key[p], encrypted_data[p]))
    /\ UNCHANGED << token_file, writes >>
    /\ SameCall
    /\ UNCHANGED notCredVars

\* store_token: self.token_file.write_bytes(encrypted_data), the open
store_token_open(p) ==
    /\ step[p] = "token_open"
    /\ LET ino == IF token_file.kind = "absent"
                  THEN FreshIno(call_id[p])
                  ELSE token_file.ino
       IN /\ token_file' = Empty(ino)
          /\ Goto(p, "token_write", key[p], encrypted_data[p], ino)
    /\ Wrote(p, "token")
    /\ UNCHANGED key_file
    /\ SameCall
    /\ UNCHANGED notCredVars

\* store_token: self.token_file.write_bytes(encrypted_data), the write
store_token_write(p) ==
    /\ step[p] = "token_write"
    /\ token_file' = WriteBytes(token_file, encrypted_data[p], opened[p])
    /\ Goto(p, "token_chmod", key[p], encrypted_data[p], opened[p])
    /\ UNCHANGED << key_file, writes >>
    /\ SameCall
    /\ UNCHANGED notCredVars

\* store_token: self.token_file.chmod(0o600); return True
store_token_chmod(p) ==
    /\ step[p] = "token_chmod"
    /\ IF token_file.kind = "absent"
       THEN Finish(p, Raise)
       ELSE Finish(p, ReturnBool(TRUE))
    /\ UNCHANGED << diskVars, writes >>
    /\ SameCall
    /\ UNCHANGED notCredVars

\* get_token: if not self.token_file.exists(): return None;
\* encrypted_data = self.token_file.read_bytes()
get_token_read(p) ==
    /\ step[p] = "get_read"
    /\ IF token_file.kind = "absent"
       THEN Finish(p, ReturnCreds(None))
       ELSE Goto(p, "get_key", key[p], ReadBytes(token_file), opened[p])
    /\ UNCHANGED << diskVars, writes >>
    /\ SameCall
    /\ UNCHANGED notCredVars

\* get_token: _decrypt_data (_get_or_create_key's exists() and read_bytes(),
\* or Fernet.generate_key()), json.loads, _validate_token, return
get_token_decrypt(p) ==
    /\ step[p] = "get_key"
    /\ IF key_file.kind = "absent"
       THEN Goto(p, "key_open", FreshKey(call_id[p]), encrypted_data[p], opened[p])
       ELSE Finish(p, DecryptAndValidate(ReadBytes(key_file), encrypted_data[p]))
    /\ UNCHANGED << diskVars, writes >>
    /\ SameCall
    /\ UNCHANGED notCredVars

\* clear_token: if self.token_file.exists()
clear_token_exists(p) ==
    /\ step[p] = "clear_exists"
    /\ IF token_file.kind = "absent"
       THEN Finish(p, ReturnBool(TRUE))
       ELSE Goto(p, "clear_unlink", key[p], encrypted_data[p], opened[p])
    /\ UNCHANGED << diskVars, writes >>
    /\ SameCall
    /\ UNCHANGED notCredVars

\* clear_token: self.token_file.unlink(); return True
clear_token_unlink(p) ==
    /\ step[p] = "clear_unlink"
    /\ IF token_file.kind = "absent"
       THEN /\ Finish(p, Raise)
            /\ UNCHANGED << token_file, writes >>
       ELSE /\ token_file' = Absent
            /\ Wrote(p, "token")
            /\ Finish(p, ReturnBool(TRUE))
    /\ UNCHANGED key_file
    /\ SameCall
    /\ UNCHANGED notCredVars

\* The write of a write_bytes raises OSError (disk full, interrupted): the
\* file stays as its open left it.
write_bytes_raises(p) ==
    /\ step[p] \in {"key_write", "token_write"}
    /\ Finish(p, Raise)
    /\ UNCHANGED << diskVars, writes >>
    /\ SameCall
    /\ UNCHANGED notCredVars

CredInit ==
    /\ JobIdle
    /\ ShapeIdle
    /\ UploadIdle
    /\ ParamIdle
    /\ PathIdle
    /\ ToolIdle
    /\ LoadIdle
    /\ CallIdle
    /\ \E d \in InitialDisks : key_file = d.key_file /\ token_file = d.token_file
    /\ environ \in Environs
    /\ op = [p \in Procs |-> "none"]
    /\ step = [p \in Procs |-> "idle"]
    /\ call_id = [p \in Procs |-> 0]
    /\ call_args = [p \in Procs |-> None]
    /\ key = [p \in Procs |-> NoBytes]
    /\ encrypted_data = [p \in Procs |-> NoBytes]
    /\ opened = [p \in Procs |-> 0]
    /\ returned = [p \in Procs |-> Pending]
    /\ adopted = [p \in Procs |-> NoAdoption]
    /\ calls_made = 0
    /\ writes = [p \in Procs |-> {}]
    /\ solo = [p \in Procs |-> FALSE]
    /\ before = [p \in Procs |-> Snapshot(NoCall, None)]
    /\ last_done = NoCall

CredNext ==
    \E p \in Procs :
       \/ call(p)
       \/ store_token_key(p)
       \/ get_or_create_key_open(p)
       \/ get_or_create_key_write(p)
       \/ store_token_open(p)
       \/ store_token_write(p)
       \/ store_token_chmod(p)
       \/ get_token_read(p)
       \/ get_token_decrypt(p)
       \/ clear_token_exists(p)
       \/ clear_token_unlink(p)
       \/ write_bytes_raises(p)

CredSpec == CredInit /\ [][CredNext]_credVars

\* ------------------------------------------------------------ claims C11..C20
\* The token shape as the claims state it: the prefix, a length within
\* [50, 200], and nothing but letters, digits, hyphens and underscores after
\* the prefix.
StatedTokenShape(t) ==
    /\ StartsWith(t, pat_)
    /\ Len(t) >= TokenMinLen
    /\ Len(t) <= TokenMaxLen
    /\ \A i \in (Len(pat_) + 1)..Len(t) : t[i] \in TokenBodyChars

\* The canonical UUID shape: 8-4-4-4-12 lower-case hexadecimal digits.
StatedUuidShape(w) ==
    /\ Len(w) = 36
    /\ \A i \in 1..36 :
         IF i \in {9, 14, 19, 24} THEN w[i] = "-" ELSE w[i] \in HexChars

\* C14: _validate_token accepts a token if and only if it starts with
\* "pat_", is 50 to 200 characters long and has only letters, digits,
\* hyphens and underscores after the prefix.
C14_ValidateIffStatedShape ==
    validate_returned => (token_ok <=> StatedTokenShape(token_in))

\* C15: the environment pair is accepted if and only if the token (as read,
\* surrounding whitespace removed) has the shape the encrypted store
\* demands and the workspace id has the canonical UUID shape.
C15_EnvAcceptedIffStatedShapes ==
    env_returned =>
        ((env_credentials # None) <=>
            /\ StatedTokenShape(Strip(token_in))
            /\ StatedUuidShape(Strip(workspace_id_in)))

\* The calls a claim about the store speaks of.
Getting(p) == op[p] = "get_credentials"
Storing(p) == op[p] = "store_token"
Over(p) == step[p] = "done"
Quiet == \A q \in Procs : Resting(q)
\* the call of p was the last to end, and nothing has happened since
JustEnded(p) == Over(p) /\ Quiet /\ last_done.proc = p
\* what the environment tier yields
EnvYield == EnvGetToken(environ.LAYER_API_TOKEN, environ.LAYER_WORKSPACE_ID)
\* the record on disk decrypts with the key on disk to a credentials object
\* whose token has the stated shape
ReadableRecord(kf, tf) ==
    /\ kf.kind = "key"
    /\ tf.kind = "fernet"
    /\ tf.key = kf.key
    /\ tf.doc.text = "json"
    /\ StatedTokenShape(tf.doc.api_token)
RecordPair(tf) == Credentials(tf.doc.api_token, tf.doc.workspace_id)

\* C11: get_credentials returns the pair of the encrypted record whenever
\* that record decrypts and validates, whatever the environment holds; the
\* environment pair only when the record yields nothing; absent only when
\* neither tier yields a pair.  (A call that no other call overlaps reads
\* the record that was on disk when it started.)
C11_ResolutionOrder ==
    \A p \in Procs :
       Getting(p) /\ Over(p) =>
          /\ returned[p].creds = None => EnvYield = None
          /\ solo[p] /\ before[p].stored # None =>
                returned[p].creds = before[p].stored
          /\ solo[p] /\ before[p].stored = None =>
                returned[p].creds = EnvYield
          /\ JustEnded(p) /\ solo[p] /\ ReadableRecord(key_file, token_file) =>
                returned[p].creds = RecordPair(token_file)

C11_Witness ==
    \E p \in Procs :
       /\ Getting(p) /\ JustEnded(p) /\ solo[p]
       /\ ReadableRecord(key_file, token_file)
       /\ EnvYield # None
       /\ returned[p].creds = RecordPair(token_file)
       /\ returned[p].creds # EnvYield

\* The states of the encrypted tier that C12 lists.
MissingRecord == token_file.kind = "absent"
DeletedKey == token_file.kind = "fernet" /\ key_file.kind = "key"
              /\ key_file.key # token_file.key
CorruptedRecord == token_file.kind = "garbage"
MalformedJson == token_file.kind = "fernet" /\ token_file.doc.text # "json"
InvalidStoredToken ==
    /\ token_file.kind = "fernet"
    /\ token_file.doc.text = "json"
    /\ ~StatedTokenShape(token_file.doc.api_token)

\* C12: get_credentials never raises; with the record file missing, the key
\* file deleted, the ciphertext corrupted, the JSON malformed or the stored
\* token of invalid shape, the encrypted tier yields absent and the call
\* returns what the environment variables yield.
C12_GetCredentialsNeverRaises ==
    \A p \in Procs :
       Getting(p) /\ Over(p) =>
          /\ returned[p].kind = "creds"
          /\ JustEnded(p) /\ solo[p]
             /\ (MissingRecord \/ DeletedKey \/ CorruptedRecord
                 \/ MalformedJson \/ InvalidStoredToken) =>
                returned[p].creds = EnvYield

\* the key file was deleted: the call found a record and no key
C12_Witness ==
    \E p \in Procs :
       /\ Getting(p) /\ JustEnded(p) /\ solo[p]
       /\ DeletedKey
       /\ "key" \in writes[p]
       /\ EnvYield # None
       /\ returned[p] = ReturnCreds(EnvYield)

\* C13: a store_credentials(token, workspace_id) that returned success,
\* followed with no write in between by get_credentials, makes that call
\* return exactly (token, workspace_id).
C13_RoundTrip ==
    \A p \in Procs :
       /\ Getting(p) /\ Over(p) /\ solo[p]
       /\ before[p].call.op = "store_token"
       /\ before[p].call.ok
       /\ before[p].call.solo
       => returned[p] = ReturnCreds(before[p].call.args)

C13_Witness ==
    \E p \in Procs :
       /\ Getting(p) /\ Over(p) /\ solo[p]
       /\ before[p].call.op = "store_token"
       /\ before[p].call.ok
       /\ before[p].call.solo
       /\ before[p].call.args.workspace_id = Uuid("0")
       /\ returned[p].creds = before[p].call.args
       /\ returned[p].creds # EnvYield

\* A pair with both fields present and the token valid, and what counts as
\* no credentials at all.
WholePair(c) == StatedTokenShape(c.api_token) /\ c.workspace_id # <<>>
NoPair(c) == c = None \/ (c.api_token = <<>> /\ c.workspace_id = <<>>)

\* C16: every pair get_credentials returns, and every pair a server holds
\* after _load_credentials, has a valid api_token and a workspace_id, or
\* there are no credentials at all.
C16_NeverPartiallyValid ==
    \A p \in Procs :
       Getting(p) /\ Over(p) =>
          \A c \in {returned[p].creds, adopted[p].secure, adopted[p].enhanced} :
             NoPair(c) \/ WholePair(c)

\* C17: store_credentials with a token of invalid shape returns failure and
\* changes neither the key file nor the encrypted record.
C17_InvalidTokenWritesNothing ==
    \A p \in Procs :
       Storing(p) /\ ~StatedTokenShape(call_args[p].api_token) =>
          /\ writes[p] = {}
          /\ Over(p) => returned[p] = ReturnBool(FALSE)
          /\ JustEnded(p) /\ solo[p] =>
                StoredRecord(key_file, token_file) = before[p].stored

C17_Witness ==
    \E p \in Procs :
       /\ Storing(p) /\ JustEnded(p) /\ solo[p]
       /\ call_args[p].api_token = ShortToken
       /\ returned[p] = ReturnBool(FALSE)
       /\ writes[p] = {}
       /\ ReadableRecord(key_file, token_file)
       /\ RecordPair(token_file) = PriorCredentials

\* C18: after a store_credentials over an earlier record, whether it
\* succeeded, failed or was interrupted, a read of the store yields the
\* whole earlier record or the whole new one.
C18_OverwriteIsAtomic ==
    \A p \in Procs :
       /\ Storing(p) /\ JustEnded(p) /\ solo[p]
       /\ StatedTokenShape(call_args[p].api_token)
       /\ before[p].stored # None
       => StoredRecord(key_file, token_file) \in {before[p].stored, call_args[p]}

\* C19: when two store_credentials calls with valid tokens have overlapped
\* and both have returned success, the store holds a readable record equal
\* to the pair of one of them.
C19_LastWriterWins ==
    \A p, q \in Procs :
       /\ p # q
       /\ Storing(p) /\ Storing(q) /\ Over(p) /\ Over(q)
       /\ returned[p] = ReturnBool(TRUE) /\ returned[q] = ReturnBool(TRUE)
       => StoredRecord(key_file, token_file) \in {call_args[p], call_args[q]}

\* C20: get_credentials never creates, changes or deletes the key file or
\* the encrypted record.
C20_ReadsAreReadOnly ==
    \A p \in Procs : Getting(p) => writes[p] = {}

\* ------------------------------------------------------------ claims C21..C30

\* The positions of input_files, and those a request has gone out for.
Positions == 1..Len(input_files)
OnNetwork(i) ==
    \E k \in 1..Len(sent) :
       sent[k].op \in {"createUploadUrls", "PUT"} /\ sent[k].file = i
Submissions == { k \in 1..Len(sent) : sent[k].op = "createInference" }
Elements(q) == { q[k] : k \in 1..Len(q) }

\* A file the stated validation lets through: it exists, is a regular
\* file, is not empty and is no larger than 50 MiB.
StatedUploadable(f) ==
    f.kind = "regular" /\ f.size > 0 /\ f.size <= 50 * 1024 * 1024

\* C21: no request goes out for an input file that does not exist, is not a
\* regular file, is empty or is larger than 50 MiB.
C21_ValidatedBeforeNetwork ==
    \A i \in Positions : OnNetwork(i) => StatedUploadable(input_files[i])

\* C22: a file whose PUT was answered is in the success list exactly when
\* the status was 200 or 201; with any other status it is in the failure
\* list and no submitted job refers to it.
C22_PutSucceedsIff200Or201 ==
    \A k \in 1..Len(put_replies) :
       LET r == put_replies[k]
       IN IF r.status \in {200, 201}
          THEN r.file \in Elements(file_urls)
          ELSE /\ r.file \notin Elements(file_urls)
               /\ r.file \in Elements(Named(failed_uploads))
               /\ \A n \in Submissions : r.file \notin Elements(sent[n].files)

\* C23: a call with input files of which none was uploaded ends without a
\* submission request, in an error that names every input file.
C23_AllFailedAborts ==
    upload_pc = "done" /\ input_files # <<>> /\ file_urls = <<>> =>
       /\ Submissions = {}
       /\ upload_result.kind \in {"error_text", "raised"}
       /\ Elements(upload_result.named) = Positions

\* The files whose PUT was answered 200 or 201, and a set of positions as
\* the sequence in input order.
PutSucceeded ==
    { put_replies[k].file :
        k \in { n \in 1..Len(put_replies) : put_replies[n].status \in {200, 201} } }
InInputOrder(S) ==
    CHOOSE q \in [1..Cardinality(S) -> S] :
       \A a, b \in 1..Cardinality(S) : a < b => q[a] < q[b]
LoopOver == upload_pc \in {"submit", "done"}

\* C24: in production's and bugfixed's loop every file the loop is through
\* with is in exactly one of the two lists, the success list being the
\* files whose transfer succeeded, in input order; the loop ends only when
\* it is through with every file; and the submission carries exactly the
\* success list.
C24_FailuresAreCollected ==
    upload_server # "fully" =>
       LET through == IF LoopOver THEN Positions ELSE 1..(file_index - 1)
       IN /\ file_urls = InInputOrder(PutSucceeded)
          /\ Named(failed_uploads) = InInputOrder(through \ PutSucceeded)
          /\ Len(file_urls) + Len(failed_uploads) = Cardinality(through)
          /\ \A n \in Submissions :
                /\ sent[n].files = InInputOrder(PutSucceeded)
                /\ PutSucceeded # {} \/ failed_uploads = <<>>
          /\ upload_pc = "done" /\ PutSucceeded # {} /\ upload_server = "production"
                => upload_result = UploadResult("submitted", InInputOrder(PutSucceeded), <<>>)

\* Three input files of which the second does not exist: one failure,
\* "file not found", and a job submitted with the other two.
C24_Witness ==
    /\ upload_server = "production"
    /\ Len(input_files) = 3
    /\ ~exists(input_files[2])
    /\ upload_pc = "done"
    /\ failed_uploads = << Failure(2, "file not found") >>
    /\ \E n \in Submissions : sent[n].files = <<1, 3>>

\* The stated clamp of a value into [lo, hi].
StatedClamp(lo, hi, v) == IF v < lo THEN lo ELSE IF v > hi THEN hi ELSE v

\* C25: of every value the caller supplies, the submitted width and height
\* are the value clamped into [64, 2048], the steps into [1, 100], the
\* guidance into [1.0, 20.0], creativity and resemblance into [0.0, 1.0]
\* (the last three in tenths).
C25_ParametersAreClamped ==
    parameters_built =>
       /\ arguments.width.given =>
             parameters.width = StatedClamp(64, 2048, arguments.width.value)
       /\ arguments.height.given =>
             parameters.height = StatedClamp(64, 2048, arguments.height.value)
       /\ arguments.steps.given =>
             parameters.numInferenceSteps = StatedClamp(1, 100, arguments.steps.value)
       /\ arguments.guidance_scale.given =>
             parameters.guidanceScale = StatedClamp(10, 200, arguments.guidance_scale.value)
       /\ arguments.creativity.given =>
             parameters.creativity = Given(StatedClamp(0, 10, arguments.creativity.value))
       /\ arguments.resemblance.given =>
             parameters.resemblance = Given(StatedClamp(0, 10, arguments.resemblance.value))

\* The servers that have the resolution function, and a resolution made.
Resolves == path_server \in {"production", "bugfixed"} /\ path_pc # "start"

\* The stated table, on the content type in lower case.
OfType(ct, major, sub) == StartsWith(ct, major \o << "/" >> \o sub)
InTable(ct) ==
    \/ \E major \in {word.image, word.video, word.audio, word.model} : OfType(ct, major, <<>>)
    \/ ct = word.octet_stream
StatedExtension(ct) ==
    IF OfType(ct, word.image, <<>>)
    THEN IF OfType(ct, word.image, word.png) THEN Ext(word.png)
         ELSE IF OfType(ct, word.image, word.jpeg) \/ OfType(ct, word.image, word.jpg) THEN Ext(word.jpg)
         ELSE IF OfType(ct, word.image, word.gif) THEN Ext(word.gif)
         ELSE IF OfType(ct, word.image, word.svg) THEN Ext(word.svg)
         ELSE IF OfType(ct, word.image, word.webp) THEN Ext(word.webp)
         ELSE Ext(word.png)
    ELSE IF OfType(ct, word.video, <<>>)
    THEN IF OfType(ct, word.video, word.mp4) THEN Ext(word.mp4)
         ELSE IF OfType(ct, word.video, word.webm) THEN Ext(word.webm)
         ELSE IF OfType(ct, word.video, word.avi) THEN Ext(word.avi)
         ELSE Ext(word.mp4)
    ELSE IF OfType(ct, word.audio, <<>>)
    THEN IF OfType(ct, word.audio, word.wav) THEN Ext(word.wav)
         ELSE IF OfType(ct, word.audio, word.mp3) THEN Ext(word.mp3)
         ELSE IF OfType(ct, word.audio, word.ogg) THEN Ext(word.ogg)
         ELSE Ext(word.wav)
    ELSE Ext(word.glb)

\* C26: for a content type of the table the extension resolved is the
\* table's: image/png .png, image/jpeg or jpg .jpg, gif, svg, webp, any
\* other image .png; video/mp4, webm, avi, any other video .mp4; audio/wav,
\* mp3, ogg, any other audio .wav; model/* and application/octet-stream
\* .glb.
C26_ExtensionTable ==
    Resolves /\ InTable(Lower(content_type)) =>
       ext = StatedExtension(Lower(content_type))

\* The extension embedded in a name: what follows its last dot, the dot
\* included, when that dot is neither the first nor the last character of
\* the final component.
ExtensionDots(f) ==
    { k \in 2..(Len(f) - 1) :
        /\ f[k] = "." /\ f[k - 1] # "/"
        /\ \A j \in (k + 1)..Len(f) : f[j] \notin {".", "/"} }
HasExtension(f) == ExtensionDots(f) # {}
Embedded(f) ==
    IF HasExtension(f)
    THEN SubSeq(f, CHOOSE k \in ExtensionDots(f) : TRUE, Len(f))
    ELSE <<>>
\* A content type that names none of the kinds of the table.
NamesNoKind(ct) ==
    \A w \in {word.image, word.video, word.audio, word.model, word.octet_stream} :
       \A i \in 1..Len(ct) : ~StartsWith(SubSeq(ct, i, Len(ct)), w)

StatedStem(f) == SubSeq(f, 1, Len(f) - Len(Embedded(f)))
StatedTarget(sp, f, e) ==
    IF sp[Len(sp)] = "/" THEN sp \o StatedStem(f) \o e
    ELSE IF HasExtension(sp) THEN sp
    ELSE sp \o e
StatedResolved(ct, f) ==
    IF InTable(Lower(ct)) THEN StatedExtension(Lower(ct))
    ELSE IF HasExtension(f) THEN Embedded(f) ELSE Ext(word.png)

\* C28: the file is written to the stated target: under a save path that
\* ends in "/", the stem of the declared filename plus the resolved
\* extension; a save path with an extension as it is; any other save path
\* with the resolved extension appended.  (secure resolves no extension:
\* the stated resolution stands in.)
C28_TargetPathRule ==
    path_pc = "done" /\ path_server # "bugfixed" =>
       full_path = StatedTarget(save_path, filename,
                                IF path_server = "secure"
                                THEN StatedResolved(content_type, filename)
                                ELSE ext)

\* C29: whatever the tool name, the arguments and the behaviour of the
\* remote service, a tool call that is over has given its caller a text
\* result; no exception has left handle_call_tool.
C29_NoRawException ==
    tool_pc = "returned" => tool_result.kind = "text"

\* secure's create_asset met a transport failure: the exception left
\* _create_asset and the caller got the error text.
C29_Witness ==
    /\ tool_server = "secure"
    /\ tool_name = "create_asset"
    /\ remote = "transport_failure"
    /\ handler_outcome = Raised("Exception")
    /\ tool_result = Returned("error")

\* Neither tier has a pair: the encrypted tier yields nothing (or its
\* manager is not there) and one of the two variables is unset or blank.
CredentialsAbsent ==
    /\ stored_pair = None \/ ~manager_imported
    /\ \/ \A i \in 1..Len(load_environ.LAYER_API_TOKEN) :
             load_environ.LAYER_API_TOKEN[i] = " "
       \/ \A i \in 1..Len(load_environ.LAYER_WORKSPACE_ID) :
             load_environ.LAYER_WORKSPACE_ID[i] = " "

\* C30: the process is never ended by the loading of credentials, and with
\* credentials absent the constructor has raised its error once it is
\* over.
C30_AbsentCredentialsAreRecoverable ==
    /\ load_pc # "exited"
    /\ CredentialsAbsent /\ load_pc # "start" => load_pc = "raised"

\* ------------------------------------------------------------ claims C31..C40

\* The request carries credentials taken from the two environment variables
\* (the token manager is missing or has handed back none of its own).
FromEnvironment ==
    /\ load_pc = "requested"
    /\ ~(manager_imported /\ stored_pair # None)

\* The environment tier of the credential store accepts the two variables.
EnvironmentValidates ==
    /\ StartsWith(Strip(load_environ.LAYER_API_TOKEN), pat_)
    /\ Len(Strip(load_environ.LAYER_API_TOKEN)) >= TokenMinLen
    /\ StatedUuidShape(Strip(load_environ.LAYER_WORKSPACE_ID))

\* C31: a request sent with the token and workspace id of the environment
\* is sent only when the two variables pass the environment tier's
\* validation.
C31_EnvironmentCredentialsValidated ==
    FromEnvironment => EnvironmentValidates

\* C32: whatever the interleaving of two create_asset calls, a call that
\* has reported a saved file finds at the path it reported the content of
\* its own job, as it would had it run alone.
C32_CallsDoNotInterfere ==
    \A c \in Callers :
       overlapped /\ call_text[c].kind = "saved" =>
          [path |-> call_text[c].path,
           content |-> ContentOf(call_text[c].inference_id)] \in disk

\* C33: a production call that is submitted after some but not all of its
\* input files failed to upload returns a text that differs from the text
\* of the call all of whose uploads succeeded.
C33_PartialUploadIsDistinguished ==
    /\ upload_server = "production" /\ upload_pc = "done"
    /\ failed_uploads # <<>> /\ file_urls # <<>>
    => TextOf(upload_result)
          # TextOf(UploadResult("submitted", InInputOrder(Positions), <<>>))

\* C34: with both variables set and no token manager to import, the
\* construction of EnhancedLayerMCPServer succeeds and the server holds the
\* two values exactly as the environment has them; _create_inference then
\* ends, whatever the remote service does, by returning one text (the
\* success report, the remote error's message or the error description),
\* never by raising.
C34_EnhancedTestPasses ==
    /\ load_pc # "start" =>
          /\ load_pc = "constructed"
          /\ held.api_token = load_environ.LAYER_API_TOKEN
          /\ held.workspace_id = load_environ.LAYER_WORKSPACE_ID
    /\ pc = "done" => outcome.kind \in {"created", "remote_error", "creation_error"}

\* The server holds the environment's token and _create_inference has
\* returned the description of an HTTP failure of the submission.
C34_Witness ==
    /\ load_pc = "constructed"
    /\ held = Credentials(TokenA, Uuid("0"))
    /\ pc = "done"
    /\ outcome.kind = "creation_error"
    /\ outcome.err.kind = "http"

\* The requests sent for file i, and the failure recorded for it.
PutsOf(i) == { n \in 1..Len(sent) : sent[n].op = "PUT" /\ sent[n].file = i }
SlotRequestsOf(i) ==
    { n \in 1..Len(sent) : sent[n].op = "createUploadUrls" /\ sent[n].file = i }
ReasonsOf(i) ==
    { failed_uploads[k].reason :
        k \in { n \in 1..Len(failed_uploads) : failed_uploads[n].file = i } }

\* C35: in _upload_file_to_layer of production (and of bugfixed, the same
\* code) a PUT goes out only after the createUploadUrls request for the
\* file was answered with a url and a fileId; a file whose request gave no
\* such slot gets no PUT and the failure "Failed to get upload URL", a file
\* whose PUT was sent and failed gets "Failed to upload file".
C35_PutOnlyAfterSlot ==
    upload_server # "fully" =>
       /\ \A i \in Positions :
             \A n \in PutsOf(i) :
                /\ \E k \in SlotRequestsOf(i) : k < n
                /\ [file |-> i, slot |-> TRUE] \in Elements(slot_replies)
       /\ \A k \in 1..Len(slot_replies) :
             ~slot_replies[k].slot =>
                /\ PutsOf(slot_replies[k].file) = {}
                /\ ReasonsOf(slot_replies[k].file) = {"Failed to get upload URL"}
       /\ \A k \in 1..Len(put_replies) :
             put_replies[k].file \notin Elements(file_urls) =>
                ReasonsOf(put_replies[k].file) = {"Failed to upload file"}

\* Of two files the first got no slot and the second's PUT was refused:
\* one request and no PUT for the first, and the two failures differ.
C35_Witness ==
    /\ upload_server = "production"
    /\ upload_pc = "done"
    /\ slot_replies = << [file |-> 1, slot |-> FALSE], [file |-> 2, slot |-> TRUE] >>
    /\ PutsOf(1) = {} /\ PutsOf(2) # {}
    /\ failed_uploads = << Failure(1, "Failed to get upload URL"),
                           Failure(2, "Failed to upload file") >>

\* A polling run of a _create_asset variant is over, and its report has
\* the time-out text.
PollingRunOver ==
    variant \in {"production", "fully", "secure"} /\ pc = "done" /\ polls > 0
TimeoutReported == outcome.kind = "timeout" \/ outcome.msg = "timeout"
StatedPollOutcomes ==
    {"downloaded", "no_files", "failed", "cancelled", "not_found", "aborted", "timeout"}

\* C36: a polling run ends in one of downloaded, completed
\* without files, failed, cancelled, job not found, aborted after
\* consecutive failures and timeout, and never reports the timeout when a
\* terminal status was observed.
C36_OneOfSevenOutcomes ==
    PollingRunOver =>
       /\ outcome.kind \in StatedPollOutcomes
       /\ outcome.kind # "timeout" => outcome.msg # "timeout"
       /\ sawTerminal => ~TimeoutReported

\* What does hold of every polling run: it ends in one of the seven
\* outcomes, in a download failure after COMPLETE (no URL, an HTTP status
\* other than 200, a transport error) or, in the fully-working and secure
\* variants, in the error a failed poll raised; the time-out text is never
\* added to another outcome and never reported when a terminal status was
\* observed; the outcomes that follow a terminal status are reported only
\* when one was observed.
PollingRunsEndOnce ==
    PollingRunOver =>
       /\ outcome.kind \in StatedPollOutcomes
                             \cup {"no_url", "download_http", "download_error", "tool_error"}
       /\ outcome.kind = "tool_error" => variant # "production"
       /\ outcome.kind = "aborted" => variant = "production"
       /\ outcome.kind # "timeout" => outcome.msg # "timeout"
       /\ sawTerminal => ~TimeoutReported
       /\ outcome.kind \in {"downloaded", "no_files", "failed", "cancelled", "no_url",
                             "download_http", "download_error"} => sawTerminal

\* The service has answered a createInference request of the call after it
\* had answered an earlier one (with an HTTP error status or with GraphQL
\* errors): the mutation has reached it twice.
SubmissionAnsweredTwice ==
    /\ req = "create" /\ tpc = "returned"
    /\ attemptsMade >= 2
    /\ last_error.kind \in {"http", "graphql", "index"}

\* C37: the createInference mutation of one call reaches the remote service
\* at most once, whatever the network does.
C37_SubmittedAtMostOnce ==
    submissions <= 1 /\ ~SubmissionAnsweredTwice

\* A status poll of the production loop has been answered with an
\* inference whose status is missing or none of COMPLETE, FAILED, CANCELLED.
NonTerminalAnswer ==
    /\ variant = "production"
    /\ pc = "await_status" /\ tpc = "returned"
    /\ result.kind = "inferences"
    /\ result.status \notin {"COMPLETE", "FAILED", "CANCELLED"}

\* C38: in production's loop (bugfixed's is the same code) a poll answered
\* with a missing or unrecognised status is a successful poll: the
\* consecutive-failure counter goes to zero, nothing is reported and the
\* interval sleep follows; from the loop's head another poll goes out as
\* long as the deadline is not reached, and the loop ends there only at the
\* deadline, with the time-out, no terminal status having been observed.
C38_UnknownStatusIsInProgress ==
    [][ variant = "production" =>
          /\ NonTerminalAnswer =>
                /\ pc' = "sleep"
                /\ consecutive_failures' = 0
                /\ failRun' = 0
                /\ outcome' = NoOutcome
          /\ pc = "sleep" => pc' = "poll" /\ elapsed_time' = elapsed_time + check_interval
          /\ pc = "poll" /\ elapsed_time < max_wait_time => pc' = "await_status"
          /\ pc = "poll" /\ pc' = "done" =>
                /\ outcome'.kind = "timeout"
                /\ elapsed_time = max_wait_time
                /\ ~sawTerminal ]_vars

\* After two failed polls in a row the third is answered with an inference
\* that has no status member.
C38_Witness ==
    /\ NonTerminalAnswer
    /\ result.status = NoStatus
    /\ consecutive_failures = 2
    /\ failRun = 2

\* C39: a download that failed (the GET answered with a status other than
\* 200, or raised) ends the call with a download-failure report and not
\* with an exception, and nothing has been written to the target.
DownloadFailed ==
    /\ pc = "done"
    /\ download_statuses # <<>>
    /\ download_statuses[Len(download_statuses)] # 200

DownloadFailureReports ==
    {"download_http", "download_error", "creation_error"}

C39_FailedDownloadWritesNothing ==
    DownloadFailed =>
        /\ written = <<>>
        /\ outcome.kind \in DownloadFailureReports

\* C40: a create_asset call whose prompt is missing, empty or made of
\* whitespace only returns the prompt error and has done nothing else: no
\* submission, no status poll, no download, and no directory or file made.
PromptUnusable == NotPrompt(prompt) \/ Strip(prompt.text) = <<>>

C40_UnusablePromptHasNoEffect ==
    (variant # "enhanced" /\ PromptUnusable /\ pc # "start") =>
        /\ pc = "done"
        /\ outcome.kind = "prompt_required"
        /\ submissions = 0
        /\ polls = 0
        /\ downloads = <<>>
        /\ written = <<>>
        /\ mkdirs = 0

==============================================================================
